---------------------------- MODULE Spec2Model ----------------------------
(***************************************************************************)
(* State-machine model of the NoteElec engine core:                        *)
(*   - EntityPool and Player (engine/core/entities)                        *)
(*   - GameLoop, the multi-callback frame scheduler                        *)
(*   - Scene (engine/core/scene), composed with GameLoop and EntityPool    *)
(*   - NetworkServer (engine/expends/server and engine/Network)            *)
(*   - NetworkClient (src/unnamed/part_002)                                *)
(* The specifications share the variables: SpecPool, SpecAdd, SpecReuse,   *)
(* SpecSnapshot, SpecEntity (pool and players), SpecLoop, SpecScene,       *)
(* SpecFrame, SpecClock, SpecRemoval, SpecCancel, SpecActivate,            *)
(* SpecDestroy (scheduler and scene), SpecNet (server and the clients'     *)
(* join handlers), SpecSync (the server's snapshot timer), SpecToggle (the *)
(* main process switching the server on and off), SpecClient (one          *)
(* NetworkClient).                                                         *)
(* Times are integers in milliseconds; deltaTime, which the code reports   *)
(* in seconds, is carried in milliseconds (deltaTime * 1000).  Opacity is  *)
(* carried in tenths (opacity * 10).                                       *)
(***************************************************************************)
EXTENDS Integers, Sequences, FiniteSets, TLC

VARIABLES
  heap,      \* Player instances by reference: heap[i] is the object's fields
  pool,      \* the EntityPool under test (SpecPool)
  last,      \* SpecPool: what the last pool/Player operation did
  snap,      \* SpecSnapshot: the array the caller got from getAll / filter
  gl,        \* the GameLoop object's fields
  scene,     \* the Scene object's fields, its EntityPool included
  now,       \* performance.now(), in ms
  armed,     \* number of #loop callbacks queued by requestAnimationFrame
  frame,     \* the animation frame being run: its timestamp, callbacks left
  trace,     \* SpecLoop: what the last handler did
  hist,      \* SpecLoop: history of the run (what the properties speak about)
  net,       \* SpecNet: the server's fields and the connections
  wire,      \* SpecNet: what the last handler emitted / history of emissions
  client     \* SpecClient: a NetworkClient and what its last handler did

poolVars == <<heap, pool, last, snap>>
loopVars == <<gl, scene, now, armed, frame, trace, hist>>
netVars  == <<net, wire, client>>
vars ==
  <<heap, pool, last, snap, gl, scene, now, armed, frame, trace, hist, net, wire, client>>

----------------------------------------------------------------------------
(* Bounds of the model *)

MaxInst == 2          \* Player instances the application creates (SpecPool)
MaxListLen == 3       \* length cap of a list the caller extends (SpecSnapshot)
MaxFree == 2          \* length cap of the free-list in SpecPool
MaxCallbacks == 2     \* length cap of each callback list of the GameLoop
MaxActivations == 2   \* Scene.activate() calls that take effect
MaxArmed == 2         \* cap of the #loop callbacks queued for one frame
LoopMaxNow == 200     \* last clock reading of SpecLoop and SpecScene, ms
ClockMaxNow == 400    \* last clock reading of SpecClock, ms

----------------------------------------------------------------------------
(* Small helpers *)

Range(s) == {s[k] : k \in 1..Len(s)}

RECURSIVE IndexOfFrom(_, _, _)
IndexOfFrom(s, x, k) ==
  IF k > Len(s) THEN 0 ELSE IF s[k] = x THEN k ELSE IndexOfFrom(s, x, k + 1)

\* Array.prototype.indexOf, 1-based; 0 stands for -1
IndexOf(s, x) == IndexOfFrom(s, x, 1)

\* Array.prototype.splice(index, 1)
SpliceOne(s, k) == SubSeq(s, 1, k - 1) \o SubSeq(s, k + 1, Len(s))

Min(a, b) == IF a <= b THEN a ELSE b

----------------------------------------------------------------------------
(* Player (engine/core/entities/Player/player.ts)                          *)
(* An id is a string, modelled as a sequence of characters so that trim()  *)
(* is computed.  NotString stands for a value whose typeof is not string.  *)

Chars == {"a", "b", " "}
NotString == <<"#number">>
IsString(v) == v # NotString

IdA == <<"a">>
IdB == <<"b">>
IdEmpty == <<>>
IdBlank == <<" ">>
IdDefault == <<"-", "1">>            \* the class's default id "-1"

RECURSIVE TrimLeft(_)
TrimLeft(s) == IF s # <<>> /\ Head(s) = " " THEN TrimLeft(Tail(s)) ELSE s

RECURSIVE TrimRight(_)
TrimRight(s) ==
  IF s # <<>> /\ s[Len(s)] = " " THEN TrimRight(SubSeq(s, 1, Len(s) - 1)) ELSE s

\* String.prototype.trim
Trim(s) == TrimRight(TrimLeft(s))

\* heap slot of an instance the application has not created
NoPlayer ==
  [made |-> FALSE, id |-> IdDefault, size |-> <<1, 1>>, opacity |-> 10, update |-> FALSE]

\* validators of the constructor (player.ts 33-47)
ValidId(v) == IsString(v)
ValidSizeParam(v) == Len(v) = 2     \* any two numbers pass: no sign check
ValidOpacityParam(v) == v >= 0 /\ v <= 10

\* new Player(params): params.keys are the keys present in params; "update"
\* is an extension key (player.ts 62-68) holding a per-entity update function.
\* The result is the new object's fields, or a TypeError and no object.
PlayerCtor(params) ==
  IF "id" \in params.keys /\ ~ValidId(params.id)
    THEN [res |-> "TypeError", obj |-> NoPlayer]
  ELSE IF "size" \in params.keys /\ ~ValidSizeParam(params.size)
    THEN [res |-> "TypeError", obj |-> NoPlayer]
  ELSE IF "opacity" \in params.keys /\ ~ValidOpacityParam(params.opacity)
    THEN [res |-> "TypeError", obj |-> NoPlayer]
  ELSE [res |-> "ok",
        obj |-> [made |-> TRUE,
                 id |-> IF "id" \in params.keys THEN params.id ELSE IdDefault,
                 size |-> IF "size" \in params.keys THEN params.size ELSE <<1, 1>>,
                 opacity |-> IF "opacity" \in params.keys THEN params.opacity ELSE 10,
                 update |-> "update" \in params.keys]]

\* setW / setH / setSize: a number of any sign is stored (player.ts 148-184)
Player_setW(o, w) == [o EXCEPT !.size = <<w, o.size[2]>>]
Player_setH(o, h) == [o EXCEPT !.size = <<o.size[1], h>>]
Player_setSize(o, w, h) == [o EXCEPT !.size = <<w, h>>]

\* setOpacity: range-checked (player.ts 188-193)
Player_setOpacity(o, op) ==
  IF op < 0 \/ op > 10 THEN [res |-> "TypeError", obj |-> o]
  ELSE [res |-> "ok", obj |-> [o EXCEPT !.opacity = op]]


----------------------------------------------------------------------------
(* EntityPool (engine/core/entities/pool/entitiesPool.ts)                  *)
(* A pool is a record:                                                     *)
(*   entities    the Map id -> instance (a function on the ids present)    *)
(*   cache       _entityCache, instances in insertion order                *)
(*   freePool    recycled instances                                        *)
(*   hooks       the keys of the frozen hooks object                       *)
(*   onAddThrows whether the caller's onAdd hook throws                    *)
(* Every operation returns [p, ev, res]: the pool afterwards, the hook and *)
(* callback invocations it made, in order, and how it ended.               *)

NotAPlayer == 0          \* an argument that is not an instance of Player
HookNames == {"onAdd", "onRemove", "onClear", "onRecycle", "onReuse"}

\* new EntityPool(hooks) (entitiesPool.ts 44-54)
EmptyMap == [x \in {} |-> NotAPlayer]

EP_new(hooks, onAddThrows) ==
  [entities |-> EmptyMap, cache |-> <<>>, freePool |-> <<>>,
   hooks |-> hooks, onAddThrows |-> onAddThrows]

\* Map.prototype.set / delete
MapSet(f, k, v) == [x \in DOMAIN f \cup {k} |-> IF x = k THEN v ELSE f[x]]
MapDelete(f, k) == [x \in DOMAIN f \ {k} |-> f[x]]

\* this.hooks.onX?.(entity): the invocation, if the hook is set
EP_hook(p, name, i) ==
  IF name \in p.hooks THEN <<[e |-> name, i |-> i]>> ELSE <<>>

\* _validatePlayerEntity (entitiesPool.ts 342-352)
EP_validatePlayerEntity_NoIdCheck(h, e) ==
  IF e = NotAPlayer THEN "Error:type" ELSE "ok"

EP_validatePlayerEntity(h, e) ==
  IF e = NotAPlayer THEN "Error:type"
  ELSE IF ~IsString(h[e].id) \/ Trim(h[e].id) = <<>> THEN "Error:id"
  ELSE "ok"

\* add (entitiesPool.ts 62-78)
EP_add(p, h, e) ==
  LET v == EP_validatePlayerEntity(h, e) IN
  IF v # "ok" THEN [p |-> p, ev |-> <<>>, res |-> v]
  ELSE IF h[e].id \in DOMAIN p.entities
    THEN [p |-> p, ev |-> <<>>, res |-> "Error:dup"]
  ELSE [p |-> [p EXCEPT !.entities = MapSet(@, h[e].id, e),
                        !.cache = Append(@, e)],
        ev |-> EP_hook(p, "onAdd", e),
        res |-> IF "onAdd" \in p.hooks /\ p.onAddThrows
                  THEN "Error:hook" ELSE "ok"]

\* remove() that takes the entity out of the cache but leaves the Map entry
EP_remove_KeepsKey(p, id) ==
  IF id \notin DOMAIN p.entities THEN [p |-> p, ev |-> <<>>, res |-> "false"]
  ELSE LET entity == p.entities[id]
           index == IndexOf(p.cache, entity)
       IN [p |-> [p EXCEPT !.cache = IF index > 0 THEN SpliceOne(@, index) ELSE @],
           ev |-> EP_hook(p, "onRemove", entity),
           res |-> "true"]

\* remove (entitiesPool.ts 159-174)
EP_remove(p, id) ==
  IF id \notin DOMAIN p.entities THEN [p |-> p, ev |-> <<>>, res |-> "false"]
  ELSE LET entity == p.entities[id]
           index == IndexOf(p.cache, entity)
       IN [p |-> [p EXCEPT !.entities = MapDelete(@, id),
                           !.cache = IF index > 0 THEN SpliceOne(@, index) ELSE @],
            ev |-> EP_hook(p, "onRemove", entity),
           res |-> "true"]

\* batchAdd (entitiesPool.ts 86-106); abort: TRUE for ABORT, FALSE for IGNORE.
\* n counts the successes so far.
RECURSIVE EP_batchAddFrom(_, _, _, _, _, _)
EP_batchAddFrom(p, h, list, abort, n, ev) ==
  IF list = <<>> THEN [p |-> p, ev |-> ev, res |-> "ok", n |-> n]
  ELSE LET r == EP_add(p, h, Head(list)) IN
       IF r.res = "ok"
         THEN EP_batchAddFrom(r.p, h, Tail(list), abort, n + 1, ev \o r.ev)
       ELSE IF abort THEN [p |-> r.p, ev |-> ev \o r.ev, res |-> r.res, n |-> n]
       ELSE EP_batchAddFrom(r.p, h, Tail(list), abort, n, ev \o r.ev)

EP_batchAdd(p, h, list, abort) == EP_batchAddFrom(p, h, list, abort, 0, <<>>)

\* batchRemove (entitiesPool.ts 182-201)
RECURSIVE EP_batchRemoveFrom(_, _, _, _)
EP_batchRemoveFrom(p, ids, n, ev) ==
  IF ids = <<>> THEN [p |-> p, ev |-> ev, res |-> "ok", n |-> n]
  ELSE LET r == EP_remove(p, Head(ids)) IN
       EP_batchRemoveFrom(r.p, Tail(ids),
                          IF r.res = "true" THEN n + 1 ELSE n, ev \o r.ev)

EP_batchRemove(p, ids) == EP_batchRemoveFrom(p, ids, 0, <<>>)

\* clear() without the early return of line 207
EP_clear_NoGuard(p) ==
  [p |-> [p EXCEPT !.entities = EmptyMap, !.cache = <<>>],
   ev |-> (IF "onRemove" \in p.hooks
             THEN [k \in 1..Len(p.cache) |-> [e |-> "onRemove", i |-> p.cache[k]]]
             ELSE <<>>)
          \o (IF "onClear" \in p.hooks THEN <<[e |-> "onClear", i |-> 0]>> ELSE <<>>),
   res |-> "ok"]

\* clear (entitiesPool.ts 206-218)
EP_clear(p) ==
  IF Len(p.cache) = 0 THEN [p |-> p, ev |-> <<>>, res |-> "ok"]
  ELSE [p |-> [p EXCEPT !.entities = EmptyMap, !.cache = <<>>],
        ev |-> (IF "onRemove" \in p.hooks
                  THEN [k \in 1..Len(p.cache) |-> [e |-> "onRemove", i |-> p.cache[k]]]
                  ELSE <<>>)
               \o (IF "onClear" \in p.hooks THEN <<[e |-> "onClear", i |-> 0]>> ELSE <<>>),
        res |-> "ok"]

\* recycle (entitiesPool.ts 226-237)
EP_recycle(p, id) ==
  IF id \notin DOMAIN p.entities THEN [p |-> p, ev |-> <<>>, res |-> "false"]
  ELSE LET entity == p.entities[id]
           r == EP_remove(p, id)
       IN [p |-> [r.p EXCEPT !.freePool = Append(@, entity)],
           ev |-> r.ev \o EP_hook(p, "onRecycle", entity),
           res |-> "true"]

\* getOrCreate that takes the oldest instance of the free-list (shift)
EP_getOrCreate_TakesOldest(p) ==
  IF Len(p.freePool) > 0
    THEN LET entity == p.freePool[1] IN
         [p |-> [p EXCEPT !.freePool = Tail(@)],
          ev |-> <<[e |-> "resetFn", i |-> entity]>> \o EP_hook(p, "onReuse", entity),
          res |-> "reuse", inst |-> entity]
  ELSE [p |-> p, ev |-> <<[e |-> "createFn", i |-> 0]>>, res |-> "create", inst |-> 0]

\* getOrCreate (entitiesPool.ts 245-256), the pool's side: res is "reuse" with
\* the popped instance in inst, or "create" when createFn is to be called.
EP_getOrCreate(p) ==
  IF Len(p.freePool) > 0
    THEN LET entity == p.freePool[Len(p.freePool)] IN
         [p |-> [p EXCEPT !.freePool = SubSeq(@, 1, Len(@) - 1)],
          ev |-> <<[e |-> "resetFn", i |-> entity]>> \o EP_hook(p, "onReuse", entity),
          res |-> "reuse", inst |-> entity]
  ELSE [p |-> p, ev |-> <<[e |-> "createFn", i |-> 0]>>, res |-> "create", inst |-> 0]

\* clearFreePool (entitiesPool.ts 262-267)
EP_clearFreePool(p, withDestroyFn) ==
  [p |-> [p EXCEPT !.freePool = <<>>],
   ev |-> IF withDestroyFn
            THEN [k \in 1..Len(p.freePool) |-> [e |-> "destroyFn", i |-> p.freePool[k]]]
            ELSE <<>>,
   res |-> "ok"]

\* destroy (entitiesPool.ts 386-397).  The hooks object is frozen by the
\* constructor and class code is strict: the first assignment of step 3
\* raises a TypeError, so the hooks stay; with no key there is no assignment.
EP_destroy(p, withDestroyFn) ==
  LET c == EP_clear(p)
      f == EP_clearFreePool(c.p, withDestroyFn)
  IN [p |-> f.p, ev |-> c.ev \o f.ev,
      res |-> IF p.hooks # {} THEN "TypeError" ELSE "ok"]

\* getAll / getSize / has / get (entitiesPool.ts 113-152)
\* An array the caller holds is a record [ref, items]: ref tells which array
\* object it is, "fresh" for one made by the call that returned it, "cache"
\* for the pool's own _entityCache; items is its content when it is fresh.
NoList == [ref |-> "none", items |-> <<>>]
ListItems(p, l) == IF l.ref = "cache" THEN p.cache ELSE l.items

\* getAll() that returns the cache array itself
EP_getAll_ReturnsCache(p) == [ref |-> "cache", items |-> p.cache]

\* getAll (entitiesPool.ts 133-135): [...this._entityCache]
EP_getAll(p) == [ref |-> "fresh", items |-> p.cache]

\* filter (entitiesPool.ts 275-277): Array.prototype.filter builds a new array
EP_filter(p, predicate(_)) == [ref |-> "fresh", items |-> SelectSeq(p.cache, predicate)]

\* filterByOpacity (entitiesPool.ts 318-330), the range in tenths
EP_filterByOpacity(p, h, range) ==
  IF range[1] > range[2] \/ range[1] < 0 \/ range[2] > 10
    THEN [res |-> "Error:range", list |-> NoList]
  ELSE [res |-> "ok",
        list |-> EP_filter(p, LAMBDA e : h[e].opacity >= range[1] /\ h[e].opacity <= range[2])]
EP_getSize(p) == Len(p.cache)
EP_has(p, id) == id \in DOMAIN p.entities
EP_get(p, id) == IF id \in DOMAIN p.entities THEN p.entities[id] ELSE NotAPlayer


----------------------------------------------------------------------------
(* GameLoop, the multi-callback scheduler (src/unnamed/part_003)           *)
(* A callback is a record [k, g]: k names the function, g tells apart the  *)
(* closures that successive Scene.activate() calls create.  A handler runs *)
(* on a world w = [gl, scene, armed, ev, thrown]: the two objects, the     *)
(* number of pending requestAnimationFrame callbacks, the events so far,   *)
(* and whether an exception is propagating.                                *)

MaxDeltaMs == 200        \* Math.min(elapsed / 1000, 0.2), in ms
FpsWindowMs == 1000      \* currentFps is refreshed once per second

Cb(k) == [k |-> k, g |-> 0]
NoCb == Cb("-")
SceneUpdateCb(g) == [k |-> "sceneUpdate", g |-> g]
SceneRenderCb(g) == [k |-> "sceneRender", g |-> g]

Ev(e, cb, x) == [e |-> e, cb |-> cb, x |-> x]
Log(w, e, cb, x) == [w EXCEPT !.ev = Append(@, Ev(e, cb, x))]

\* field initialisers of the class (part_003 13-30)
GL_new ==
  [isRunning |-> FALSE, isPaused |-> FALSE, lastTime |-> 0, pauseStartTime |-> 0,
   maxFps |-> 0, frameInterval |-> 0,
   updateCallbacks |-> <<>>, renderCallbacks |-> <<>>, errorCallback |-> "none",
   frameCount |-> 0, lastFpsUpdate |-> 0, currentFps |-> 0]

\* stop() that empties the lists without ending the loop
GL_stop_KeepsRunning(g) == [g EXCEPT !.updateCallbacks = <<>>, !.renderCallbacks = <<>>]

\* stop (part_003 57-62)
GL_stop_KeepsCallbacks(g) == [g EXCEPT !.isRunning = FALSE, !.isPaused = FALSE]

GL_stop(g) ==
  [g EXCEPT !.isRunning = FALSE, !.isPaused = FALSE,
            !.updateCallbacks = <<>>, !.renderCallbacks = <<>>]

\* pause (part_003 67-71); t is performance.now()
GL_pause(g, t) ==
  IF ~g.isRunning \/ g.isPaused THEN g
  ELSE [g EXCEPT !.isPaused = TRUE, !.pauseStartTime = t]

\* resume (part_003 76-82)
GL_resume_NoShift(g, t) ==
  IF ~g.isRunning \/ ~g.isPaused THEN g
  ELSE [g EXCEPT !.isPaused = FALSE]

GL_resume(g, t) ==
  IF ~g.isRunning \/ ~g.isPaused THEN g
  ELSE [g EXCEPT !.isPaused = FALSE,
                 !.lastTime = @ + (t - g.pauseStartTime)]

GL_setMaximumFps_NoInterval(g, fps) == [g EXCEPT !.maxFps = fps]

\* setMaximumFps (part_003 88-94); fps = 0 stands for null.  The values used
\* divide 1000, so 1000 / fps is exact.
GL_setMaximumFps(g, fps) ==
  [g EXCEPT !.maxFps = fps, !.frameInterval = IF fps # 0 THEN 1000 \div fps ELSE 0]

\* addUpdateCallback / addRenderCallback (part_003 101-105, 120-123)
GL_addUpdateCallback(g, cb) == [g EXCEPT !.updateCallbacks = Append(@, cb)]
GL_addRenderCallback(g, cb) == [g EXCEPT !.renderCallbacks = Append(@, cb)]

\* removeUpdateCallback written with indexOf/splice: only the first registration
GL_removeUpdateCallback_FirstOnly(g, cb) ==
  LET l == g.updateCallbacks
      hits == {k \in 1..Len(l) : l[k] = cb}
  IN IF hits = {} THEN g
     ELSE LET k0 == CHOOSE k \in hits : \A j \in hits : k <= j
          IN [g EXCEPT !.updateCallbacks =
                [j \in 1..(Len(l) - 1) |-> IF j < k0 THEN l[j] ELSE l[j + 1]]]

\* removeUpdateCallback / removeRenderCallback (part_003 111-113, 129-131):
\* filter builds a new array; an array being iterated is not touched
GL_removeUpdateCallback(g, cb) ==
  [g EXCEPT !.updateCallbacks = SelectSeq(@, LAMBDA c : c # cb)]
GL_removeRenderCallback(g, cb) ==
  [g EXCEPT !.renderCallbacks = SelectSeq(@, LAMBDA c : c # cb)]

\* #handleError (part_003 206-215): the handler's own exception is caught
GL_handleError(w, cb) ==
  CASE w.gl.errorCallback = "none" -> w
    [] w.gl.errorCallback = "throws" ->
         Log(Log(w, "onError", cb, 0), "handlerThrew", cb, 0)
    [] OTHER -> Log(w, "onError", cb, 0)

\* Scene (engine/core/scene/scene.ts): field initialisers and constructor
\* (37-51).  gen counts the activations, to name the closures of each.
Scene_new ==
  [isActive |-> FALSE, gen |-> 0,
   removeUpdateCallback |-> NoCb, removeRenderCallback |-> NoCb,
   entityPool |-> EP_new({}, FALSE)]

\* activate() without the isActive guard of scene.ts 85-88
Scene_activate_NoGuard(w) ==
  LET g == w.scene.gen + 1 IN
  Log([w EXCEPT !.gl = GL_addRenderCallback(
                          GL_addUpdateCallback(@, SceneUpdateCb(g)),
                          SceneRenderCb(g)),
                !.scene.removeUpdateCallback = SceneUpdateCb(g),
                !.scene.removeRenderCallback = SceneRenderCb(g),
                !.scene.gen = g,
                !.scene.isActive = TRUE],
      "onActivate", NoCb, g)

\* Scene.activate (scene.ts 84-104)
Scene_activate(w) ==
  IF w.scene.isActive THEN Log(w, "activateNoop", NoCb, 0)
  ELSE LET g == w.scene.gen + 1 IN
       Log([w EXCEPT !.gl = GL_addRenderCallback(
                               GL_addUpdateCallback(@, SceneUpdateCb(g)),
                               SceneRenderCb(g)),
                     !.scene.removeUpdateCallback = SceneUpdateCb(g),
                     !.scene.removeRenderCallback = SceneRenderCb(g),
                     !.scene.gen = g,
                     !.scene.isActive = TRUE],
           "onActivate", NoCb, g)

\* destroy() that tears the pool down before it deregisters the closures
Scene_destroy_PoolFirst(w) ==
  IF ~w.scene.isActive THEN Log(w, "destroyNoop", NoCb, 0)
  ELSE LET rU == w.scene.removeUpdateCallback
           rR == w.scene.removeRenderCallback
           d == EP_destroy(w.scene.entityPool, TRUE)
           w1 == Log([w EXCEPT !.scene.entityPool = d.p], "poolDestroy", NoCb, EP_getSize(w.scene.entityPool))
           g1 == IF rU # NoCb THEN GL_removeUpdateCallback(w1.gl, rU) ELSE w1.gl
           g2 == IF rR # NoCb THEN GL_removeRenderCallback(g1, rR) ELSE g1
           w2 == Log([w1 EXCEPT !.gl = g2], "unregistered", NoCb, w.scene.gen)
       IN Log(Log([w2 EXCEPT !.scene.isActive = FALSE], "deactivated", NoCb, 0),
              "onDestroy", NoCb, w.scene.gen)

\* Scene.destroy (scene.ts 110-130); the poolDestroy event tells how many
\* entities the pool held
Scene_destroy(w) ==
  IF ~w.scene.isActive THEN Log(w, "destroyNoop", NoCb, 0)
  ELSE LET rU == w.scene.removeUpdateCallback
           rR == w.scene.removeRenderCallback
           g1 == IF rU # NoCb THEN GL_removeUpdateCallback(w.gl, rU) ELSE w.gl
           g2 == IF rR # NoCb THEN GL_removeRenderCallback(g1, rR) ELSE g1
           d == EP_destroy(w.scene.entityPool, TRUE)
           w1 == Log(Log([w EXCEPT !.gl = g2], "unregistered", NoCb, w.scene.gen),
                     "poolDestroy", NoCb, EP_getSize(w.scene.entityPool))
           w2 == [w1 EXCEPT !.scene.entityPool = d.p]
       IN IF d.res # "ok" THEN [w2 EXCEPT !.thrown = TRUE]
          ELSE Log(Log([w2 EXCEPT !.scene.isActive = FALSE], "deactivated", NoCb, 0),
                   "onDestroy", NoCb, w.scene.gen)

\* the entity an event concerns, in the event's cb field
EntityRef(i) == [k |-> "entity", g |-> i]

\* update() that runs the scene's onUpdate hook before the entities' updates
Scene_update_HookFirst(w, h, dt) ==
  IF ~w.scene.isActive THEN Log(w, "inactiveReturn", NoCb, 0)
  ELSE LET c == w.scene.entityPool.cache
           upd == SelectSeq(c, LAMBDA i : h[i].update)
           w1 == Log(Log(w, "onUpdate", NoCb, dt), "poolForEach", NoCb, Len(c))
       IN [w1 EXCEPT !.ev = @ \o [k \in 1..Len(upd) |->
                                     Ev("entityUpdate", EntityRef(upd[k]), dt)]]

\* Scene.update (scene.ts 137-150); h is the heap the pooled instances live
\* in.  entityUpdate is player.update(deltaTime), onUpdate the scene's hook.
Scene_update(w, h, dt) ==
  IF ~w.scene.isActive THEN Log(w, "inactiveReturn", NoCb, 0)
  ELSE LET c == w.scene.entityPool.cache
           upd == SelectSeq(c, LAMBDA i : h[i].update)
           w1 == Log(w, "poolForEach", NoCb, Len(c))
       IN Log([w1 EXCEPT !.ev = @ \o [k \in 1..Len(upd) |->
                                          Ev("entityUpdate", EntityRef(upd[k]), dt)]],
              "onUpdate", NoCb, dt)

\* Scene.render (scene.ts 156-169)
Scene_render(w) ==
  IF ~w.scene.isActive THEN Log(w, "inactiveReturn", NoCb, 0)
  ELSE LET c == w.scene.entityPool.cache
           w1 == Log(Log(w, "rendererClear", NoCb, 0), "poolForEach", NoCb, Len(c))
       IN Log([w1 EXCEPT !.ev = @ \o [k \in 1..Len(c) |->
                                          Ev("drawEntity", EntityRef(c[k]), 0)]],
              "onRender", NoCb, 0)

\* What a registered callback does when the scheduler calls it.  The scene's
\* closures are those of scene.ts 91-98; the others are application
\* callbacks: one that returns, one that throws, one that calls
\* gameLoop.stop(), one that calls scene.destroy().
CallbackBody(w, h, cb, dt) ==
  CASE cb.k = "sceneUpdate" -> Scene_update(w, h, dt)
    [] cb.k = "sceneRender" -> Scene_render(w)
    [] cb.k = "throws" -> [w EXCEPT !.thrown = TRUE]
    [] cb.k = "stops" -> Log([w EXCEPT !.gl = GL_stop(@)], "stop", cb, 0)
    [] cb.k = "destroys" -> Scene_destroy(w)
    [] OTHER -> w

\* what the model passes for the argument of callback(), which has none
\* (part_003 182)
NoArg == -1

\* one iteration of the forEach bodies of #loop (part_003 171-177, 180-186)
GL_invoke_NoCatch(w, h, cb, phase, dt) ==
  CallbackBody(Log(w, phase, cb, dt), h, cb, dt)

GL_invoke(w, h, cb, phase, dt) ==
  LET w1 == CallbackBody(Log(w, phase, cb, dt), h, cb, dt) IN
  IF w1.thrown THEN GL_handleError([w1 EXCEPT !.thrown = FALSE], cb) ELSE w1

\* Array.prototype.forEach over the array the field held when the loop began
RECURSIVE GL_forEach(_, _, _, _, _)
RECURSIVE GL_forEach_Reversed(_, _, _, _, _)
GL_forEach_Reversed(w, h, cbs, phase, dt) ==
  IF cbs = <<>> \/ w.thrown THEN w
  ELSE GL_forEach_Reversed(GL_invoke(w, h, cbs[Len(cbs)], phase, dt), h,
                           SubSeq(cbs, 1, Len(cbs) - 1), phase, dt)

GL_forEach(w, h, cbs, phase, dt) ==
  IF cbs = <<>> \/ w.thrown THEN w
  ELSE GL_forEach(GL_invoke(w, h, Head(cbs), phase, dt), h, Tail(cbs), phase, dt)

\* requestAnimationFrame((t) => this.#loop(t))
Rearm(w) == Log([w EXCEPT !.armed = @ + 1], "rearm", NoCb, 0)

\* the FPS bookkeeping of #loop (part_003 189-195); Math.round of a
\* non-negative quotient is floor(x + 1/2)
GL_countFrame(g, timestamp) ==
  LET n == g.frameCount + 1
      fpsElapsed == timestamp - g.lastFpsUpdate
  IN IF fpsElapsed >= FpsWindowMs
       THEN [g EXCEPT !.currentFps = (2 * n * 1000 + fpsElapsed) \div (2 * fpsElapsed),
                      !.frameCount = 0, !.lastFpsUpdate = timestamp]
       ELSE [g EXCEPT !.frameCount = n]

\* Math.min(elapsed / 1000, 0.2), in ms (part_003 165)
GL_deltaTime_NoClamp(elapsed) == elapsed

GL_deltaTime(elapsed) == Min(elapsed, MaxDeltaMs)

\* #loop (part_003 145-199)
GL_loop_IgnoresPause(w, h, timestamp) ==
  LET w0 == Log(w, "loop", NoCb, timestamp) IN
  IF ~w0.gl.isRunning THEN Log(w0, "notRunning", NoCb, 0)
  ELSE LET elapsed == timestamp - w0.gl.lastTime IN
       IF w0.gl.maxFps # 0 /\ elapsed < w0.gl.frameInterval
         THEN Rearm(Log(w0, "skipped", NoCb, elapsed))
       ELSE LET deltaTime == GL_deltaTime(elapsed)
                w1 == Log([w0 EXCEPT !.gl.lastTime = timestamp], "frame", NoCb, deltaTime)
                w2 == GL_forEach(w1, h, w1.gl.updateCallbacks, "update", deltaTime)
                w3 == GL_forEach(w2, h, w2.gl.renderCallbacks, "render", NoArg)
            IN IF w3.thrown THEN w3
               ELSE Rearm([w3 EXCEPT !.gl = GL_countFrame(@, timestamp)])

GL_loop(w, h, timestamp) ==
  LET w0 == Log(w, "loop", NoCb, timestamp) IN
  IF ~w0.gl.isRunning THEN Log(w0, "notRunning", NoCb, 0)
  ELSE IF w0.gl.isPaused THEN Rearm(Log(w0, "paused", NoCb, 0))
  ELSE LET elapsed == timestamp - w0.gl.lastTime IN
       IF w0.gl.maxFps # 0 /\ elapsed < w0.gl.frameInterval
         THEN Rearm(Log(w0, "skipped", NoCb, elapsed))
       ELSE LET deltaTime == GL_deltaTime(elapsed)
                w1 == Log([w0 EXCEPT !.gl.lastTime = timestamp], "frame", NoCb, deltaTime)
                w2 == GL_forEach(w1, h, w1.gl.updateCallbacks, "update", deltaTime)
                w3 == GL_forEach(w2, h, w2.gl.renderCallbacks, "render", NoArg)
            IN IF w3.thrown THEN w3
               ELSE Rearm([w3 EXCEPT !.gl = GL_countFrame(@, timestamp)])

GL_start_NoGuard(w, h, t, immediate) ==
  LET w1 == [w EXCEPT !.gl.isRunning = TRUE, !.gl.isPaused = FALSE,
                      !.gl.lastTime = t, !.gl.lastFpsUpdate = t,
                      !.gl.frameCount = 0, !.gl.currentFps = 0]
  IN IF immediate THEN GL_loop(w1, h, w1.gl.lastTime) ELSE Rearm(w1)

\* start (part_003 36-52); t is performance.now()
GL_start(w, h, t, immediate) ==
  IF w.gl.isRunning THEN w
  ELSE LET w1 == [w EXCEPT !.gl.isRunning = TRUE, !.gl.isPaused = FALSE,
                           !.gl.lastTime = t, !.gl.lastFpsUpdate = t,
                           !.gl.frameCount = 0, !.gl.currentFps = 0]
       IN IF immediate THEN GL_loop(w1, h, w1.gl.lastTime) ELSE Rearm(w1)

----------------------------------------------------------------------------
(* The rest of the program's state, as constructed, for the specifications *)
(* that leave it alone.                                                    *)

InstIds == 1..MaxInst

PoolInit ==
  /\ heap = [i \in InstIds |-> NoPlayer]
  /\ \E cfg \in {<<{}, FALSE>>, <<HookNames, FALSE>>, <<HookNames, TRUE>>} :
       pool = EP_new(cfg[1], cfg[2])
  /\ last = [op |-> "new", inst |-> 0, id |-> IdEmpty, res |-> "ok", ev |-> <<>>, n |-> 0]
  /\ snap = NoList

LoopInit ==
  /\ gl = GL_new
  /\ scene = Scene_new
  /\ now = 0
  /\ armed = 0
  /\ frame = [ts |-> -1, firing |-> 0]
  /\ trace = [op |-> "new", ev |-> <<>>, thrown |-> FALSE]
  /\ hist = [cleared |-> {}, startT |-> -1, firstTs |-> -1, lastExecTs |-> -1,
             sumDt |-> 0, everPaused |-> FALSE, clamped |-> FALSE, heard |-> FALSE,
             pausedAt |-> -1, pausedMs |-> 0, framePausedMs |-> 0, fns |-> {}]

----------------------------------------------------------------------------
(* SpecPool: the application drives one EntityPool and its Player objects. *)

IdInputs == {IdA, IdB, IdBlank, IdEmpty}
SizeInputs == {<<0, 50>>}
ScalarInputs == {-5}
OpacityInputs == {5, 15}

\* what SpecPool passes to new Player: an id of any kind, the other fields default
PoolCtorParams ==
  [keys : {{"id"}}, id : IdInputs \cup {NotString}, size : {<<1, 1>>}, opacity : {10}]

\* what SpecEntity passes to new Player: instance 1 is "a", the others "b"
EntityCtorParams(i) ==
  [keys : {{"id"}, {"id", "size"}, {"id", "opacity"}},
   id : {IF i = 1 THEN IdA ELSE IdB}, size : SizeInputs, opacity : OpacityInputs]

Done(op, inst, id, r) ==
  [op |-> op, inst |-> inst, id |-> id, res |-> r.res, ev |-> r.ev,
   n |-> IF "n" \in DOMAIN r THEN r.n ELSE 0]

\* new Player(params) by the application
Construct(i, params) ==
  /\ ~heap[i].made
  /\ LET r == PlayerCtor(params) IN
       /\ heap' = IF r.res = "ok" THEN [heap EXCEPT ![i] = r.obj] ELSE heap
       /\ last' = Done("new Player", i, IdEmpty, [res |-> r.res, ev |-> <<>>])
  /\ UNCHANGED <<pool>>
  /\ UNCHANGED <<snap, loopVars, netVars>>

\* player.setW / setH / setSize on any live instance, pooled or not
SetSize(i, which, w, h) ==
  /\ heap[i].made
  /\ heap' = [heap EXCEPT ![i] =
                CASE which = "setW" -> Player_setW(@, w)
                  [] which = "setH" -> Player_setH(@, h)
                  [] OTHER -> Player_setSize(@, w, h)]
  /\ last' = Done(which, i, IdEmpty, [res |-> "ok", ev |-> <<>>])
  /\ UNCHANGED <<pool>>
  /\ UNCHANGED <<snap, loopVars, netVars>>

\* player.setOpacity
SetOpacity(i, op) ==
  /\ heap[i].made
  /\ LET r == Player_setOpacity(heap[i], op) IN
       /\ heap' = [heap EXCEPT ![i] = r.obj]
       /\ last' = Done("setOpacity", i, IdEmpty, [res |-> r.res, ev |-> <<>>])
  /\ UNCHANGED <<pool>>
  /\ UNCHANGED <<snap, loopVars, netVars>>

\* pool.add(entity); e = NotAPlayer is an argument that is no Player
Add(e) ==
  /\ IF e = NotAPlayer THEN TRUE ELSE heap[e].made
  /\ LET r == EP_add(pool, heap, e) IN
       /\ pool' = r.p
       /\ last' = Done("add", e, IF e = NotAPlayer THEN IdEmpty ELSE heap[e].id, r)
  /\ UNCHANGED <<heap>>
  /\ UNCHANGED <<snap, loopVars, netVars>>

Remove(id) ==
  /\ LET r == EP_remove(pool, id) IN
       /\ pool' = r.p
       /\ last' = Done("remove", EP_get(pool, id), id, r)
  /\ UNCHANGED <<heap>>
  /\ UNCHANGED <<snap, loopVars, netVars>>

BatchAdd(list, abort) ==
  /\ \A k \in 1..Len(list) : IF list[k] = NotAPlayer THEN TRUE ELSE heap[list[k]].made
  /\ LET r == EP_batchAdd(pool, heap, list, abort) IN
       /\ pool' = r.p
       /\ last' = Done(IF abort THEN "batchAdd:abort" ELSE "batchAdd:ignore",
                       0, IdEmpty, r)
  /\ UNCHANGED <<heap>>
  /\ UNCHANGED <<snap, loopVars, netVars>>

BatchRemove(ids) ==
  /\ LET r == EP_batchRemove(pool, ids) IN
       /\ pool' = r.p
       /\ last' = Done("batchRemove", 0, IdEmpty, r)
  /\ UNCHANGED <<heap>>
  /\ UNCHANGED <<snap, loopVars, netVars>>

Clear ==
  /\ LET r == EP_clear(pool) IN
       /\ pool' = r.p
       /\ last' = Done("clear", 0, IdEmpty, r)
  /\ UNCHANGED <<heap>>
  /\ UNCHANGED <<snap, loopVars, netVars>>

Recycle(id) ==
  /\ Len(pool.freePool) < MaxFree
  /\ LET r == EP_recycle(pool, id) IN
       /\ pool' = r.p
       /\ last' = Done("recycle", EP_get(pool, id), id, r)
  /\ UNCHANGED <<heap>>
  /\ UNCHANGED <<snap, loopVars, netVars>>

\* pool.getOrCreate(createFn, resetFn): resetFn gives the reused instance the
\* id newId and default size and opacity; createFn builds a Player with newId.
GetOrCreate(newId) ==
  LET r == EP_getOrCreate(pool) IN
    /\ pool' = r.p
    /\ IF r.res = "reuse"
         THEN /\ heap' = [heap EXCEPT ![r.inst] =
                            [made |-> TRUE, id |-> newId, size |-> <<1, 1>>,
                             opacity |-> 10, update |-> FALSE]]
              /\ last' = Done("getOrCreate", r.inst, newId, r)
         ELSE \E i \in InstIds :
                /\ ~heap[i].made
                /\ heap' = [heap EXCEPT ![i] =
                              PlayerCtor([keys |-> {"id"}, id |-> newId,
                                          size |-> <<1, 1>>, opacity |-> 10]).obj]
                /\ last' = Done("getOrCreate", i, newId, r)
    /\ UNCHANGED <<snap, loopVars, netVars>>

ClearFreePool(withDestroyFn) ==
  /\ LET r == EP_clearFreePool(pool, withDestroyFn) IN
       /\ pool' = r.p
       /\ last' = Done("clearFreePool", 0, IdEmpty, r)
  /\ UNCHANGED <<heap>>
  /\ UNCHANGED <<snap, loopVars, netVars>>

Destroy(withDestroyFn) ==
  /\ LET r == EP_destroy(pool, withDestroyFn) IN
       /\ pool' = r.p
       /\ last' = Done("destroy", 0, IdEmpty, r)
  /\ UNCHANGED <<heap>>
  /\ UNCHANGED <<snap, loopVars, netVars>>

\* list = pool.getAll()
GetAll ==
  /\ snap' = EP_getAll(pool)
  /\ last' = Done("getAll", 0, IdEmpty, [res |-> "ok", ev |-> <<>>])
  /\ UNCHANGED <<heap, pool>>
  /\ UNCHANGED <<loopVars, netVars>>

\* list = pool.filterByOpacity(range)
FilterByOpacity(range) ==
  /\ LET r == EP_filterByOpacity(pool, heap, range) IN
       /\ snap' = IF r.res = "ok" THEN r.list ELSE snap
       /\ last' = Done("filter", 0, IdEmpty, [res |-> r.res, ev |-> <<>>])
  /\ UNCHANGED <<heap, pool>>
  /\ UNCHANGED <<loopVars, netVars>>

\* Array.prototype.push / pop / reverse
ArrayMutate(items, how, e) ==
  CASE how = "push" -> Append(items, e)
    [] how = "pop" -> IF items = <<>> THEN items ELSE SubSeq(items, 1, Len(items) - 1)
    [] OTHER -> [k \in 1..Len(items) |-> items[Len(items) + 1 - k]]

\* the caller changes the array it was given: list.push(e), list.pop(),
\* list.reverse().  The array that changes is the one the reference names.
MutateList(how, e) ==
  /\ snap.ref # "none"
  /\ how = "push" => heap[e].made /\ Len(ListItems(pool, snap)) < MaxListLen
  /\ IF snap.ref = "cache"
       THEN /\ pool' = [pool EXCEPT !.cache = ArrayMutate(@, how, e)]
            /\ snap' = snap
       ELSE /\ snap' = [snap EXCEPT !.items = ArrayMutate(@, how, e)]
            /\ pool' = pool
  /\ last' = Done("mutateList", 0, IdEmpty, [res |-> "ok", ev |-> <<>>])
  /\ UNCHANGED <<heap>>
  /\ UNCHANGED <<loopVars, netVars>>

\* what SpecSnapshot passes to new Player: instance 1 is "a", the others "b"
SnapshotCtorParams(i) ==
  [keys : {{"id", "opacity"}}, id : {IF i = 1 THEN IdA ELSE IdB},
   size : {<<1, 1>>}, opacity : {5, 10}]
OpacityRanges == {<<0, 5>>, <<0, 10>>, <<6, 4>>}

\* SpecSnapshot: the caller reads lists from the pool and changes them
NextSnapshot ==
  \/ \E i \in InstIds : \E params \in SnapshotCtorParams(i) : Construct(i, params)
  \/ \E e \in InstIds : Add(e)
  \/ \E id \in {IdA, IdB} : Remove(id)
  \/ Clear
  \/ GetAll
  \/ \E range \in OpacityRanges : FilterByOpacity(range)
  \/ \E how \in {"push", "pop", "reverse"}, e \in InstIds : MutateList(how, e)

BatchLists == {<<a, b>> : a \in InstIds \cup {NotAPlayer}, b \in InstIds}
BatchIds == {<<a, b>> : a \in {IdA, IdB}, b \in {IdA, IdB}}

NextPool ==
  \/ \E i \in InstIds, params \in PoolCtorParams : Construct(i, params)
  \/ \E e \in InstIds \cup {NotAPlayer} : Add(e)
  \/ \E id \in {IdA, IdB} : Remove(id)
  \/ \E list \in BatchLists, abort \in BOOLEAN : BatchAdd(list, abort)
  \/ \E ids \in BatchIds : BatchRemove(ids)
  \/ Clear
  \/ \E id \in {IdA, IdB} : Recycle(id)
  \/ \E newId \in {IdA, IdB} : GetOrCreate(newId)
  \/ \E f \in BOOLEAN : ClearFreePool(f)
  \/ \E f \in BOOLEAN : Destroy(f)

\* SpecAdd: add beside the calls that take entities out again
NextAdd ==
  \/ \E i \in InstIds, params \in PoolCtorParams : Construct(i, params)
  \/ \E e \in InstIds \cup {NotAPlayer} : Add(e)
  \/ \E id \in {IdA, IdB} : Remove(id)
  \/ \E id \in {IdA, IdB} : Recycle(id)
  \/ Clear

\* SpecReuse: the free-list, filled by recycle and emptied by getOrCreate
NextReuse ==
  \/ \E i \in InstIds, params \in PoolCtorParams : Construct(i, params)
  \/ \E e \in InstIds : Add(e)
  \/ \E id \in {IdA, IdB} : Recycle(id)
  \/ \E newId \in {IdA, IdB} : GetOrCreate(newId)

NextEntity ==
  \/ \E i \in InstIds : \E params \in EntityCtorParams(i) : Construct(i, params)
  \/ \E i \in InstIds, which \in {"setW", "setH", "setSize"}, w \in ScalarInputs :
       SetSize(i, which, w, w)
  \/ \E i \in InstIds, op \in OpacityInputs : SetOpacity(i, op)
  \/ \E e \in InstIds : Add(e)
  \/ \E id \in {IdA, IdB} : Remove(id)
  \/ \E id \in {IdA} : Recycle(id)
  \/ GetOrCreate(IdA)

----------------------------------------------------------------------------
(* SpecLoop, SpecScene, SpecClock: the application drives one GameLoop and *)
(* one Scene; the browser runs the queued #loop callbacks once per         *)
(* animation frame.  A handler runs to completion: each action is one      *)
(* handler.                                                                *)

EvNames(ev) == {ev[k].e : k \in 1..Len(ev)}
EvX(ev, name) == ev[CHOOSE k \in 1..Len(ev) : ev[k].e = name].x
Calls(ev, phase) ==
  LET sel == SelectSeq(ev, LAMBDA e : e.e = phase) IN [k \in 1..Len(sel) |-> sel[k].cb]
Registered(g) == Range(g.updateCallbacks) \cup Range(g.renderCallbacks)

World == [gl |-> gl, scene |-> scene, armed |-> armed, ev |-> <<>>, thrown |-> FALSE]

\* The history the properties speak about, kept beside the program's own fields:
\*   cleared    callbacks a stop() found registered, not registered again since
\*   startT     the clock reading of the last start() that took effect
\*   firstTs    first timestamp #loop got while running since then (-1: none)
\*   lastExecTs timestamp of the last executed frame since then (-1: none)
\*   sumDt      sum of the deltaTime of the executed frames since then
\*   heard      an update callback was registered in each of those frames
\*   clamped    one of those frames came more than MaxDeltaMs of running time
\*              after the one before
\*   everPaused pause() took effect since then
\*   pausedAt   clock reading of the pause() in effect (-1: none)
\*   pausedMs   paused time completed since the last executed frame
\*   framePausedMs  what pausedMs was when the last executed frame began
\*   fns        the removal functions the application kept from add*Callback:
\*              the list and callback each closes over, and whether it has
\*              been called
\* PrevExec is the timestamp of the last executed frame, else startT.
PrevExec(h) == IF h.lastExecTs # -1 THEN h.lastExecTs ELSE h.startT

Observe(h0, op, t, g0, ev, cb) ==
  LET names == EvNames(ev)
      h1 == IF op = "start" /\ ~g0.isRunning
              THEN [h0 EXCEPT !.startT = t, !.firstTs = -1, !.lastExecTs = -1,
                              !.sumDt = 0, !.everPaused = FALSE, !.clamped = FALSE,
                              !.heard = TRUE, !.pausedAt = -1, !.framePausedMs = 0,
                              !.pausedMs = 0]
              ELSE h0
      h2 == IF op = "pause" /\ g0.isRunning /\ ~g0.isPaused
              THEN [h1 EXCEPT !.pausedAt = t, !.everPaused = TRUE] ELSE h1
      h3 == IF op = "resume" /\ g0.isRunning /\ g0.isPaused
              THEN [h2 EXCEPT !.pausedMs = @ + (t - h2.pausedAt), !.pausedAt = -1]
              ELSE h2
      h4 == IF names \cap {"frame", "paused", "skipped"} # {} /\ h3.firstTs = -1
              THEN [h3 EXCEPT !.firstTs = EvX(ev, "loop")] ELSE h3
      h5 == IF "frame" \in names
              THEN LET ts == EvX(ev, "loop") IN
                   [h4 EXCEPT !.sumDt = @ + EvX(ev, "frame"),
                              !.heard = @ /\ "update" \in names,
                              !.clamped = @ \/ (ts - PrevExec(h4) - h4.pausedMs > MaxDeltaMs),
                              !.lastExecTs = ts, !.pausedMs = 0,
                              !.framePausedMs = h4.pausedMs]
              ELSE h4
      h6 == IF "stop" \in names
              THEN [h5 EXCEPT !.cleared = @ \cup Registered(g0), !.pausedAt = -1]
              ELSE h5
  IN IF op \in {"addUpdateCallback", "addRenderCallback"}
       THEN [h6 EXCEPT !.cleared = @ \ {cb}] ELSE h6

CommitKeeping(w, op, cb, fns) ==
  /\ gl' = w.gl
  /\ scene' = w.scene
  /\ armed' = w.armed
  /\ trace' = [op |-> op, ev |-> w.ev, thrown |-> w.thrown]
  /\ hist' = [Observe(hist, op, now, gl, w.ev, cb) EXCEPT !.fns = fns]

Commit(w, op, cb) == CommitKeeping(w, op, cb, hist.fns)

Idle == frame.firing = 0
Others == UNCHANGED <<now, frame, poolVars, netVars>>

\* gameLoop.start(immediate)
Start(immediate) ==
  /\ Idle
  /\ armed < MaxArmed
  /\ Commit(GL_start(World, heap, now, immediate), "start", NoCb)
  /\ Others

\* gameLoop.stop()
Stop ==
  /\ Idle
  /\ Commit(Log([World EXCEPT !.gl = GL_stop(@)], "stop", NoCb, 0), "stop", NoCb)
  /\ Others

\* gameLoop.pause()
Pause ==
  /\ Idle
  /\ Commit([World EXCEPT !.gl = GL_pause(@, now)], "pause", NoCb)
  /\ Others

\* gameLoop.resume()
Resume ==
  /\ Idle
  /\ Commit([World EXCEPT !.gl = GL_resume(@, now)], "resume", NoCb)
  /\ Others

\* gameLoop.setMaximumFps(fps)
SetMaximumFps(fps) ==
  /\ Idle
  /\ Commit([World EXCEPT !.gl = GL_setMaximumFps(@, fps)], "setMaximumFps", NoCb)
  /\ Others

\* gameLoop.addUpdateCallback(cb)
AddUpdateCallback(cb) ==
  /\ Idle
  /\ Len(gl.updateCallbacks) < MaxCallbacks
  /\ Commit([World EXCEPT !.gl = GL_addUpdateCallback(@, cb)], "addUpdateCallback", cb)
  /\ Others

\* gameLoop.addRenderCallback(cb)
AddRenderCallback(cb) ==
  /\ Idle
  /\ Len(gl.renderCallbacks) < MaxCallbacks
  /\ Commit([World EXCEPT !.gl = GL_addRenderCallback(@, cb)], "addRenderCallback", cb)
  /\ Others

\* the function addUpdateCallback(cb) returned, or removeUpdateCallback(cb)
RemoveUpdateCallback(cb) ==
  /\ Idle
  /\ Commit([World EXCEPT !.gl = GL_removeUpdateCallback(@, cb)], "removeUpdateCallback", cb)
  /\ Others

RemoveRenderCallback(cb) ==
  /\ Idle
  /\ Commit([World EXCEPT !.gl = GL_removeRenderCallback(@, cb)], "removeRenderCallback", cb)
  /\ Others

\* The closure add*Callback returns (part_003 104, 122): it closes over the
\* callback and calls remove*Callback with it.
RemoveFn(list, cb) == [list |-> list, cb |-> cb, called |-> FALSE]
GL_removeFn(g, f) ==
  IF f.list = "update" THEN GL_removeUpdateCallback(g, f.cb)
                       ELSE GL_removeRenderCallback(g, f.cb)

\* remove = gameLoop.addUpdateCallback(cb), the application keeping remove
KeepUpdateRemover(cb) ==
  /\ Idle
  /\ Len(gl.updateCallbacks) < MaxCallbacks
  /\ CommitKeeping([World EXCEPT !.gl = GL_addUpdateCallback(@, cb)], "addUpdateCallback",
                   cb, hist.fns \cup {RemoveFn("update", cb)})
  /\ Others

\* remove = gameLoop.addRenderCallback(cb), the application keeping remove
KeepRenderRemover(cb) ==
  /\ Idle
  /\ Len(gl.renderCallbacks) < MaxCallbacks
  /\ CommitKeeping([World EXCEPT !.gl = GL_addRenderCallback(@, cb)], "addRenderCallback",
                   cb, hist.fns \cup {RemoveFn("render", cb)})
  /\ Others

\* remove(), for a removal function f the application kept; the event records
\* whether f had been called before (x = 1) or not (x = 0)
CallRemover(f) ==
  /\ Idle
  /\ f \in hist.fns
  /\ CommitKeeping([World EXCEPT !.gl = GL_removeFn(@, f),
                                 !.ev = <<Ev(f.list, f.cb, IF f.called THEN 1 ELSE 0)>>],
                   "removeFn", f.cb,
                   (hist.fns \ {f}) \cup {[f EXCEPT !.called = TRUE]})
  /\ Others

\* gameLoop.onError(handler) (part_003 137-139); kind: "ok" or "throws"
OnError(kind) ==
  /\ Idle
  /\ Commit([World EXCEPT !.gl.errorCallback = kind], "onError", NoCb)
  /\ Others

\* scene.activate()
Activate ==
  /\ Idle
  /\ \/ scene.isActive
     \/ /\ scene.gen < MaxActivations
        /\ Len(gl.updateCallbacks) < MaxCallbacks
        /\ Len(gl.renderCallbacks) < MaxCallbacks
  /\ Commit(Scene_activate(World), "activate", NoCb)
  /\ Others

\* scene.destroy()
DestroyScene ==
  /\ Idle
  /\ Commit(Scene_destroy(World), "destroy", NoCb)
  /\ Others

\* scene.addEntity(player) (scene.ts 57-61)
Scene_addEntity(w, h, i) ==
  IF h[i].id = IdEmpty THEN [w EXCEPT !.thrown = TRUE]
  ELSE LET r == EP_add(w.scene.entityPool, h, i) IN
       [w EXCEPT !.scene.entityPool = r.p, !.thrown = r.res # "ok"]

\* scene.removeEntity(playerId) (scene.ts 67-70)
Scene_removeEntity(w, id) ==
  [w EXCEPT !.scene.entityPool = EP_remove(@, id).p]

AddEntity(i) ==
  /\ Idle
  /\ Commit(Scene_addEntity(World, heap, i), "addEntity", NoCb)
  /\ Others

RemoveEntity(id) ==
  /\ Idle
  /\ Commit(Scene_removeEntity(World, id), "removeEntity", NoCb)
  /\ Others

\* scene.entityPool.recycle(id): the pool is a public field of the scene
\* (scene.ts 32; entitiesPool.ts 226-237)
RecycleEntity(id) ==
  /\ Idle
  /\ Len(scene.entityPool.freePool) < MaxFree
  /\ Commit([World EXCEPT !.scene.entityPool = EP_recycle(@, id).p], "recycle", NoCb)
  /\ Others

\* performance.now() moves on by d ms
AdvanceTime(d, max) ==
  /\ Idle
  /\ now + d <= max
  /\ now' = now + d
  /\ UNCHANGED <<gl, scene, armed, frame, trace, hist, poolVars, netVars>>

\* The browser begins an animation frame: the callbacks queued so far will
\* run with the frame's timestamp, which is the clock reading or, when
\* handlers ran in this frame before them, up to lag ms older.
BeginFrame(lag) ==
  /\ Idle
  /\ armed > 0
  /\ now - lag > frame.ts
  /\ frame' = [ts |-> now - lag, firing |-> armed]
  /\ armed' = 0
  /\ UNCHANGED <<gl, scene, now, trace, hist, poolVars, netVars>>

\* The next animation frame begins d ms later, no handler having run in
\* between: AdvanceTime(d, max) then BeginFrame(0)
FrameAfter(d, max) ==
  /\ Idle
  /\ armed > 0
  /\ now + d <= max
  /\ now' = now + d
  /\ frame' = [ts |-> now + d, firing |-> armed]
  /\ armed' = 0
  /\ UNCHANGED <<gl, scene, trace, hist, poolVars, netVars>>

\* One queued callback of the frame runs: (t) => this.#loop(t)
Tick ==
  /\ frame.firing > 0
  /\ frame' = [frame EXCEPT !.firing = @ - 1]
  /\ Commit(GL_loop(World, heap, frame.ts), "tick", NoCb)
  /\ UNCHANGED <<now, poolVars, netVars>>

LoopHeap ==
  [i \in InstIds |->
     [made |-> TRUE, id |-> IF i = 1 THEN IdA ELSE IdB, size |-> <<50, 50>>,
      opacity |-> 10, update |-> i = 1]]

\* SpecLoop: update callbacks that return, throw or stop the loop, and a
\* render callback that throws
LoopUpdateCbs == {Cb("ok"), Cb("throws"), Cb("stops")}
LoopRenderCbs == {Cb("throws")}

NextLoop ==
  \/ \E immediate \in BOOLEAN : Start(immediate)
  \/ Stop
  \/ \E cb \in LoopUpdateCbs : AddUpdateCallback(cb)
  \/ \E cb \in LoopRenderCbs : AddRenderCallback(cb)
  \/ \E cb \in LoopUpdateCbs : RemoveUpdateCallback(cb)
  \/ \E cb \in LoopRenderCbs : RemoveRenderCallback(cb)
  \/ \E kind \in {"ok", "throws"} : OnError(kind)
  \/ FrameAfter(100, LoopMaxNow)
  \/ Tick

\* SpecScene: a Scene on the loop, beside application callbacks that
\* destroy the scene
SceneCbs == {Cb("destroys")}

NextScene ==
  \/ \E immediate \in BOOLEAN : Start(immediate)
  \/ Stop
  \/ \E cb \in SceneCbs : AddUpdateCallback(cb)
  \/ \E cb \in SceneCbs : AddRenderCallback(cb)
  \/ Activate
  \/ DestroyScene
  \/ \E i \in InstIds : AddEntity(i)
  \/ \E id \in {IdA, IdB} : RemoveEntity(id)
  \/ FrameAfter(100, LoopMaxNow)
  \/ Tick

\* SpecClock: one update callback, the clock, pauses and the rate limit
ClockSteps == {100, 300}
FrameLags == {0, 100}
FpsInputs == {0, 5}

NextClock ==
  \/ \E immediate \in BOOLEAN : Start(immediate)
  \/ Pause
  \/ Resume
  \/ \E fps \in FpsInputs : SetMaximumFps(fps)
  \/ /\ gl.updateCallbacks = <<>>
     /\ AddUpdateCallback(Cb("ok"))
  \/ RemoveUpdateCallback(Cb("ok"))
  \/ \E d \in ClockSteps : AdvanceTime(d, ClockMaxNow)
  \/ \E lag \in FrameLags : BeginFrame(lag)
  \/ Tick

----------------------------------------------------------------------------
(* NetworkServer (engine/expends/server/server.ts and engine/Network/       *)
(* server.ts).  The two files differ in the updateState handler: the first *)
(* replaces the stored state by the payload, the second spreads the        *)
(* payload over the stored state.                                          *)

Digits == <<"1", "2", "3", "4", "5", "6", "7", "8", "9">>

\* socket.id of the k-th connection the server accepts: a fresh string
SocketId(k) == <<"s", Digits[k]>>

\* new Player(this.initParams) with initParams = {}: the fields the model
\* follows are id (the class's default) and the first coordinate
NewPlayerState == [id |-> IdDefault, x |-> 0]

\* { ...a, ...b }
Spread(a, b) ==
  [k \in DOMAIN a \cup DOMAIN b |-> IF k \in DOMAIN b THEN b[k] ELSE a[k]]

\* a message the server emits: to the sockets in to, event ev, payload data
Emit(to, ev, data) == [to |-> to, ev |-> ev, data |-> data]

\* new NetworkServer(): variant is "expends" or "Network"; sockets are the
\* open connections of io, accepted counts the connections accepted so far
NS_new(variant) ==
  [variant |-> variant, players |-> EmptyMap, order |-> <<>>, sockets |-> {},
   accepted |-> 0]

\* The interval timer.  timers.setInterval(callback, delay) of Node.js uses 1 ms
\* for a delay that is not a number of at least 1; 0 stands for undefined.
TimerDelay(delay) == IF delay < 1 THEN 1 ELSE delay

\* its delay in the Network file (Network/server.ts 68)
NetworkSyncMs == 100
\* default of the constructor's syncFrequency (expends/server/server.ts 21)
DefaultSyncMs == 100

\* The constructor of the expends file (21-30) calls setupHandlers() before it
\* assigns this.syncFrequency, and setupHandlers passes this.syncFrequency to
\* setInterval (62-66): the field is still undefined there.  The Network file
\* has no such argument.  The result tells the value the field ends with and
\* the delay the timer runs with.
NS_timer(variant, syncFrequency) ==
  IF variant = "expends"
    THEN LET atSetup == 0 IN
         [syncFrequency |-> syncFrequency, delay |-> TimerDelay(atSetup)]
    ELSE [syncFrequency |-> NetworkSyncMs, delay |-> TimerDelay(NetworkSyncMs)]

\* this.players.set(c, v) / this.players.delete(c): a Map iterates its keys in
\* insertion order, and set() on a key it holds keeps the key's place.  order
\* is that order.
PlayersSet(n, c, v) ==
  [n EXCEPT !.players = MapSet(@, c, v),
            !.order = IF c \in DOMAIN n.players THEN @ ELSE Append(@, c)]
PlayersDelete(n, c) ==
  [n EXCEPT !.players = MapDelete(@, c),
            !.order = SelectSeq(@, LAMBDA k : k # c)]

\* Array.from(this.players.values()); the model keeps each value's key
\* beside it
PlayersValues(n) ==
  [k \in 1..Len(n.order) |-> [key |-> n.order[k], state |-> n.players[n.order[k]]]]

\* the connection handler with socket.broadcast.emit: playerJoined to the others
NS_onConnection_ToOthers(n, c) ==
  LET currPlayer == NewPlayerState
      n1 == PlayersSet([n EXCEPT !.sockets = @ \cup {c}, !.accepted = @ + 1],
                       c, currPlayer)
  IN [n |-> n1,
      out |-> <<Emit({c}, "assignId", c),
                Emit(n.sockets, "playerJoined", currPlayer)>>]

\* the connection handler emitting playerJoined before assignId
NS_onConnection_JoinedFirst(n, c) ==
  LET currPlayer == NewPlayerState
      n1 == PlayersSet([n EXCEPT !.sockets = @ \cup {c}, !.accepted = @ + 1],
                       c, currPlayer)
  IN [n |-> n1,
      out |-> <<Emit(n1.sockets, "playerJoined", currPlayer),
                Emit({c}, "assignId", c)>>]

\* io.on("connection", ...): returns the server and the messages emitted
NS_onConnection(n, c) ==
  LET currPlayer == NewPlayerState
      n1 == PlayersSet([n EXCEPT !.sockets = @ \cup {c}, !.accepted = @ + 1],
                       c, currPlayer)
  IN [n |-> n1,
      out |-> <<Emit({c}, "assignId", c),
                Emit(n1.sockets, "playerJoined", currPlayer)>>]

\* updateState that deletes the entry before it stores the new state
NS_onUpdateState_Reinsert(n, c, state) ==
  IF c \notin DOMAIN n.players THEN n
  ELSE PlayersSet(PlayersDelete(n, c), c,
                  IF n.variant = "expends" THEN state ELSE Spread(n.players[c], state))

\* socket.on("updateState", ...) of the socket with id c
NS_onUpdateState_NoGuard(n, c, state) ==
  IF n.variant = "expends"
       THEN PlayersSet(n, c, state)
       ELSE PlayersSet(n, c, Spread(IF c \in DOMAIN n.players THEN n.players[c]
                                    ELSE EmptyMap, state))

NS_onUpdateState(n, c, state) ==
  IF c \notin DOMAIN n.players THEN n
  ELSE IF n.variant = "expends"
       THEN PlayersSet(n, c, state)
       ELSE PlayersSet(n, c, Spread(n.players[c], state))

\* the disconnect handler without players.delete
NS_onDisconnect_KeepsEntry(n, c) ==
  LET n1 == [n EXCEPT !.sockets = @ \ {c}]
  IN [n |-> n1, out |-> <<Emit(n1.sockets, "playerLeft", c)>>]

\* socket.on("disconnect", ...): socket.io has taken the socket out of io
\* when it emits the event
NS_onDisconnect(n, c) ==
  LET n1 == PlayersDelete([n EXCEPT !.sockets = @ \ {c}], c)
  IN [n |-> n1, out |-> <<Emit(n1.sockets, "playerLeft", c)>>]

\* the setInterval callback
NS_onInterval(n) ==
  [n |-> n, out |-> <<Emit(n.sockets, "stateUpdate", PlayersValues(n))>>]

----------------------------------------------------------------------------
(* NetworkClient (src/unnamed/part_002).  The object is a record:          *)
(*   socket     0 for null, else the number of the Socket that io() made   *)
(*   connected  socket.connected of that Socket                            *)
(*   error      whether an error callback is registered in this.events     *)
(*   made       how many Sockets io() has made                             *)
(* A method or handler returns [k, ev]: the object afterwards and what it  *)
(* did, in order: "error" (the error callback invoked), "emit"             *)
(* (updateState emitted, with its payload), "io" (a Socket made),          *)
(* "connect" / "close" (socket.connect() / socket.disconnect() called),    *)
(* each with the Socket it concerns.                                       *)

NoSocket == 0
ServerClose == "io server disconnect"
ClientClose == "io client disconnect"
TransportClose == "transport close"

Did(e, s) == [e |-> e, s |-> s]

\* new NetworkClient(events) (part_002 13-16)
NC_new(error) == [socket |-> NoSocket, connected |-> FALSE, error |-> error, made |-> 0]

\* this.events.error?.call(this, message)
NC_error(k) == IF k.error THEN <<Did("error", k.socket)>> ELSE <<>>

\* connect (part_002 19-63): the handlers are registered on the new Socket
NC_connect(k) ==
  IF k.socket # NoSocket THEN [k |-> k, ev |-> <<>>]
  ELSE [k |-> [k EXCEPT !.socket = k.made + 1, !.made = @ + 1, !.connected = FALSE],
        ev |-> <<Did("io", k.made + 1)>>]

\* the Socket's "disconnect" handler (part_002 56-62), run with this.socket
\* as it is when the event fires
NC_onDisconnect_AlwaysReconnects(k, reason) ==
  [k |-> k,
   ev |-> NC_error(k) \o (IF k.socket # NoSocket THEN <<Did("connect", k.socket)>> ELSE <<>>)]

NC_onDisconnect(k, reason) ==
  [k |-> k,
   ev |-> NC_error(k)
          \o (IF reason = ServerClose /\ k.socket # NoSocket
                THEN <<Did("connect", k.socket)>> ELSE <<>>)]

\* sendPlayerState (part_002 66-73)
NC_sendPlayerState_SocketOnly(k, state) ==
  IF k.socket = NoSocket THEN [k |-> k, ev |-> NC_error(k)]
  ELSE [k |-> k, ev |-> <<[e |-> "emit", s |-> k.socket, data |-> state]>>]

NC_sendPlayerState(k, state) ==
  IF k.socket = NoSocket \/ ~k.connected THEN [k |-> k, ev |-> NC_error(k)]
  ELSE [k |-> k, ev |-> <<[e |-> "emit", s |-> k.socket, data |-> state]>>]

\* on("error", callback) (part_002 76-78)
NC_onError(k) == [k |-> [k EXCEPT !.error = TRUE], ev |-> <<>>]

\* disconnect (part_002 81-84).  socket.disconnect() on a connected Socket
\* closes it and fires its "disconnect" event with reason "io client
\* disconnect" before it returns, this.socket still being set; then
\* this.socket = null.
NC_disconnect(k) ==
  IF k.socket = NoSocket THEN [k |-> k, ev |-> <<>>]
  ELSE LET closed == <<Did("close", k.socket)>>
           h == IF k.connected
                  THEN NC_onDisconnect([k EXCEPT !.connected = FALSE], ClientClose)
                  ELSE [k |-> k, ev |-> <<>>]
       IN [k |-> [h.k EXCEPT !.socket = NoSocket, !.connected = FALSE],
           ev |-> closed \o h.ev]

\* the client of the specifications that leave it alone
ClientIdle == [nc |-> NC_new(FALSE), op |-> "new", reason |-> "", ev |-> <<>>]

WireInit ==
  [up |-> {}, op |-> "new", c |-> IdEmpty, out |-> <<>>, gone |-> {},
   timer |-> NS_timer("expends", DefaultSyncMs), clock |-> 0, snaps |-> 0,
   instance |-> TRUE, timers |-> 1,
   rx |-> [d \in {SocketId(k) : k \in 1..Len(Digits)} |-> <<>>]]

\* NetworkClient.connect (part_002 31-39): the client of socket d runs its
\* assignId and playerJoined handlers for the messages the server emitted to
\* d, in the order of emission on that socket.  rx[d] lists the client
\* callbacks invoked, each with the connection whose handler emitted it.
ClientEvent(m, by) ==
  [ev |-> IF m.ev = "assignId" THEN "connected" ELSE "playerJoined",
   data |-> m.data, by |-> by]
Deliver(rx, out, by) ==
  [d \in DOMAIN rx |->
     LET mine == SelectSeq(out, LAMBDA m : d \in m.to /\ m.ev \in {"assignId", "playerJoined"})
     IN rx[d] \o [k \in 1..Len(mine) |-> ClientEvent(mine[k], by)]]

\* a server of either file
NetInit ==
  /\ net \in {NS_new(v) : v \in {"expends", "Network"}}
  /\ wire = WireInit
  /\ client = ClientIdle

\* the server of the specifications that leave it alone
NetIdle ==
  /\ net = NS_new("expends")
  /\ wire = WireInit
  /\ client = ClientIdle

----------------------------------------------------------------------------
(* SpecNet: clients connect, send updateState, disconnect; messages may be *)
(* handled late.  wire holds the updateState messages in flight (up), the  *)
(* last handler that ran, the socket it ran for and what it emitted (op,   *)
(* c, out), the socket ids whose connection has closed (gone), and what    *)
(* each client received of the join protocol (rx).                         *)

MaxConns == 3
MaxInFlight == 2
MaxServers == 2         \* servers the main process constructs (SpecToggle)
SyncWindowMs == 350     \* the window in which snapshots are counted, ms
Payloads == {[x |-> 1], [id |-> IdA, x |-> 2]}

\* a client connects: io accepts it under a fresh id
Connect ==
  /\ net.accepted < MaxConns
  /\ LET c == SocketId(net.accepted + 1)
         r == NS_onConnection(net, c)
     IN /\ net' = r.n
        /\ wire' = [wire EXCEPT !.op = "connection", !.c = c, !.out = r.out,
                                !.rx = Deliver(@, r.out, c)]
  /\ UNCHANGED <<client, poolVars, loopVars>>

\* the client of the open connection c emits updateState(state)
ClientEmit(c, state) ==
  /\ c \in net.sockets
  /\ Cardinality(wire.up) < MaxInFlight
  /\ wire' = [wire EXCEPT !.up = @ \cup {[c |-> c, state |-> state]}]
  /\ UNCHANGED <<net, client, poolVars, loopVars>>

\* the server runs the updateState handler for a message in flight
UpdateState(m) ==
  /\ m \in wire.up
  /\ net' = NS_onUpdateState(net, m.c, m.state)
  /\ wire' = [wire EXCEPT !.up = @ \ {m}, !.op = "updateState", !.c = m.c,
                          !.out = <<>>]
  /\ UNCHANGED <<client, poolVars, loopVars>>

\* the connection c closes
Disconnect(c) ==
  /\ c \in net.sockets
  /\ LET r == NS_onDisconnect(net, c)
     IN /\ net' = r.n
        /\ wire' = [wire EXCEPT !.op = "disconnect", !.c = c, !.out = r.out,
                                !.gone = @ \cup {c}]
  /\ UNCHANGED <<client, poolVars, loopVars>>

\* the interval timer fires
Interval ==
  /\ LET r == NS_onInterval(net)
     IN /\ net' = r.n
        /\ wire' = [wire EXCEPT !.op = "interval", !.c = IdEmpty, !.out = r.out]
  /\ UNCHANGED <<client, poolVars, loopVars>>

\* The interval timer fires, wire.timer.delay ms after the time before; the
\* clock is followed up to the end of the window observed.
TimerFires ==
  /\ wire.instance
  /\ wire.clock + wire.timer.delay <= SyncWindowMs
  /\ LET r == NS_onInterval(net)
     IN /\ net' = r.n
        /\ wire' = [wire EXCEPT !.op = "timer", !.c = IdEmpty, !.out = r.out,
                                !.clock = @ + wire.timer.delay, !.snaps = @ + 1]
  /\ UNCHANGED <<client, poolVars, loopVars>>

\* stop() (expends/server/server.ts 76-79, Network/server.ts 72-75):
\* io.close() closes every connection, in the order they were accepted, and
\* the disconnect handler runs for each.  No clearInterval is called.
RECURSIVE NS_closeAll(_, _)
NS_closeAll(n, out) ==
  IF n.order = <<>> THEN [n |-> [n EXCEPT !.sockets = {}], out |-> out]
  ELSE LET r == NS_onDisconnect(n, Head(n.order)) IN NS_closeAll(r.n, out \o r.out)

NS_stop(n) == NS_closeAll(n, <<>>)

\* handleServerToggle(enable) of the Electron main process (main.ts 74-96).
\* wire.instance tells whether serverInstance holds a server, wire.timers how
\* many interval timers the process has; the servers it makes are those of
\* the Network file, each of whose constructors sets a timer.
HandleServerToggle(enable) ==
  /\ enable /\ ~wire.instance => wire.timers < MaxServers
  /\ IF enable /\ ~wire.instance
       THEN /\ net' = NS_new("Network")
            /\ wire' = [wire EXCEPT !.op = "toggleOn", !.c = IdEmpty, !.out = <<>>,
                                    !.timer = NS_timer("Network", DefaultSyncMs),
                                    !.instance = TRUE, !.timers = @ + 1]
     ELSE IF ~enable /\ wire.instance
       THEN LET r == NS_stop(net) IN
            /\ net' = r.n
            /\ wire' = [wire EXCEPT !.op = "toggleOff", !.c = IdEmpty, !.out = r.out,
                                    !.gone = @ \cup net.sockets, !.instance = FALSE]
     ELSE /\ net' = net
          /\ wire' = [wire EXCEPT !.op = "toggleNoop", !.c = IdEmpty, !.out = <<>>]
  /\ UNCHANGED <<client, poolVars, loopVars>>

\* the interval timer of a server that was stopped fires: its callback emits
\* the snapshot of that server's map, which stop() left empty, on its closed io
StaleTimerFires ==
  /\ wire.timers > (IF wire.instance THEN 1 ELSE 0)
  /\ wire' = [wire EXCEPT !.op = "staleTimer", !.c = IdEmpty,
                          !.out = <<Emit({}, "stateUpdate", <<>>)>>]
  /\ UNCHANGED <<net, client, poolVars, loopVars>>

AllSocketIds == {SocketId(k) : k \in 1..MaxConns}

NextNet ==
  \/ Connect
  \/ \E c \in AllSocketIds, state \in Payloads : ClientEmit(c, state)
  \/ \E m \in wire.up : UpdateState(m)
  \/ \E c \in AllSocketIds : Disconnect(c)
  \/ Interval

----------------------------------------------------------------------------
(* The specifications *)

InitPool == PoolInit /\ LoopInit /\ NetIdle
SpecPool == InitPool /\ [][NextPool]_vars

SpecAdd == InitPool /\ [][NextAdd]_vars

SpecReuse == InitPool /\ [][NextReuse]_vars

SpecSnapshot == InitPool /\ [][NextSnapshot]_vars

InitEntity == InitPool /\ pool = EP_new({}, FALSE)
SpecEntity == InitEntity /\ [][NextEntity]_vars

(* SpecRemoval: the application keeps the functions add*Callback returns and
   calls them at any time, around stop() and start(). *)
RemovalUpdateCbs == {Cb("ok"), Cb("throws")}
RemovalRenderCbs == {Cb("ok")}
RemovalFns ==
  {[list |-> "update", cb |-> cb, called |-> c] : cb \in RemovalUpdateCbs, c \in BOOLEAN}
    \cup {[list |-> "render", cb |-> cb, called |-> c] : cb \in RemovalRenderCbs, c \in BOOLEAN}

NextRemoval ==
  \/ \E immediate \in BOOLEAN : Start(immediate)
  \/ Stop
  \/ \E cb \in RemovalUpdateCbs : KeepUpdateRemover(cb)
  \/ \E cb \in RemovalRenderCbs : KeepRenderRemover(cb)
  \/ \E f \in RemovalFns : CallRemover(f)
  \/ FrameAfter(100, LoopMaxNow)
  \/ Tick

(* SpecCancel: callbacks of either phase call gameLoop.stop() or
   scene.destroy() while #loop is running them. *)
CancelCbs == {Cb("stops"), Cb("destroys")}

NextCancel ==
  \/ Start(TRUE)
  \/ \E cb \in CancelCbs : AddUpdateCallback(cb)
  \/ \E cb \in CancelCbs : AddRenderCallback(cb)
  \/ OnError("ok")
  \/ Activate
  \/ FrameAfter(100, LoopMaxNow)
  \/ Tick

(* SpecActivate: the application activates and destroys one Scene, any number
   of times, around start() and stop() of its GameLoop. *)
NextActivate ==
  \/ \E immediate \in BOOLEAN : Start(immediate)
  \/ Stop
  \/ Activate
  \/ DestroyScene
  \/ \E i \in InstIds : AddEntity(i)
  \/ \E id \in {IdA, IdB} : RemoveEntity(id)
  \/ FrameAfter(100, LoopMaxNow)
  \/ Tick

(* SpecDestroy: a Scene whose pool holds entities and recycled instances is
   activated and destroyed, with stop() of its GameLoop in between. *)
NextDestroy ==
  \/ Stop
  \/ Activate
  \/ DestroyScene
  \/ \E i \in InstIds : AddEntity(i)
  \/ \E id \in {IdA, IdB} : RemoveEntity(id)
  \/ \E id \in {IdA, IdB} : RecycleEntity(id)

(* SpecFrame: the frames of a loop that runs a Scene holding entities, beside
   an update callback that destroys the scene. *)
NextFrame ==
  \/ Start(TRUE)
  \/ AddUpdateCallback(Cb("destroys"))
  \/ Activate
  \/ \E i \in InstIds : AddEntity(i)
  \/ \E id \in {IdA, IdB} : RemoveEntity(id)
  \/ FrameAfter(100, LoopMaxNow)
  \/ Tick

InitLoop ==
  /\ heap = LoopHeap
  /\ pool = EP_new({}, FALSE)
  /\ last = [op |-> "new", inst |-> 0, id |-> IdEmpty, res |-> "ok", ev |-> <<>>, n |-> 0]
  /\ snap = NoList
  /\ LoopInit
  /\ NetIdle
SpecLoop == InitLoop /\ [][NextLoop]_vars

SpecScene == InitLoop /\ [][NextScene]_vars

SpecFrame == InitLoop /\ [][NextFrame]_vars

SpecClock == InitLoop /\ [][NextClock]_vars

SpecRemoval == InitLoop /\ [][NextRemoval]_vars

SpecCancel == InitLoop /\ [][NextCancel]_vars

SpecActivate == InitLoop /\ [][NextActivate]_vars

SpecDestroy == InitLoop /\ [][NextDestroy]_vars

(* SpecSync: the server's interval timer over a window of time, for either
   file and the sync frequencies the caller may pass, while clients connect
   and disconnect. *)
SyncArgs == {50, 100}

SyncInit ==
  /\ net \in {NS_new(v) : v \in {"expends", "Network"}}
  /\ wire \in {[WireInit EXCEPT !.timer = NS_timer(net.variant, f)] : f \in SyncArgs}
  /\ client = ClientIdle

NextSync ==
  \/ Connect
  \/ \E c \in AllSocketIds : Disconnect(c)
  \/ TimerFires

(* SpecToggle: the main process switches its server on and off while
   clients connect and the interval timers fire. *)
NextToggle ==
  \/ \E enable \in BOOLEAN : HandleServerToggle(enable)
  \/ /\ wire.instance
     /\ Connect
  \/ \E c \in AllSocketIds : Disconnect(c)
  \/ TimerFires
  \/ StaleTimerFires

InitToggle ==
  /\ heap = LoopHeap
  /\ pool = EP_new({}, FALSE)
  /\ last = [op |-> "new", inst |-> 0, id |-> IdEmpty, res |-> "ok", ev |-> <<>>, n |-> 0]
  /\ snap = NoList
  /\ LoopInit
  /\ net = NS_new("Network")
  /\ wire = [WireInit EXCEPT !.instance = FALSE, !.timers = 0,
                             !.timer = NS_timer("Network", DefaultSyncMs)]
  /\ client = ClientIdle
SpecToggle == InitToggle /\ [][NextToggle]_vars

InitSync ==
  /\ heap = LoopHeap
  /\ pool = EP_new({}, FALSE)
  /\ last = [op |-> "new", inst |-> 0, id |-> IdEmpty, res |-> "ok", ev |-> <<>>, n |-> 0]
  /\ snap = NoList
  /\ LoopInit
  /\ SyncInit
SpecSync == InitSync /\ [][NextSync]_vars

(* SpecClient: the application drives one NetworkClient while its Socket
   connects, is closed by the server, or drops. *)
MaxSockets == 4

ClientDone(r, op, reason) ==
  /\ client' = [nc |-> r.k, op |-> op, reason |-> reason, ev |-> r.ev]
  /\ UNCHANGED <<net, wire, poolVars, loopVars>>

\* client.connect()
ClientConnect ==
  /\ client.nc.socket # NoSocket \/ client.nc.made < MaxSockets
  /\ ClientDone(NC_connect(client.nc), "connect", "")

\* client.sendPlayerState(state)
ClientSend(state) ==
  ClientDone(NC_sendPlayerState(client.nc, state), "sendPlayerState", "")

\* client.disconnect()
ClientDisconnect == ClientDone(NC_disconnect(client.nc), "disconnect", "")

\* client.on("error", callback)
ClientOnError == ClientDone(NC_onError(client.nc), "on", "")

\* the Socket gets connected: after io(), after socket.connect(), or by the
\* library's own reconnection after a drop; the "connect" handler only logs
\* (part_002 27-29)
SocketConnected ==
  /\ client.nc.socket # NoSocket /\ ~client.nc.connected
  /\ ClientDone([k |-> [client.nc EXCEPT !.connected = TRUE], ev |-> <<>>],
                "connectEvent", "")

\* the connected Socket is closed by the server or drops: socket.connected is
\* false when the "disconnect" event fires
SocketClosed(reason) ==
  /\ client.nc.socket # NoSocket /\ client.nc.connected
  /\ ClientDone(NC_onDisconnect([client.nc EXCEPT !.connected = FALSE], reason),
                "disconnectEvent", reason)

ClientInit == client \in {[nc |-> NC_new(e), op |-> "new", reason |-> "", ev |-> <<>>] : e \in BOOLEAN}

NextClient ==
  \/ ClientConnect
  \/ \E state \in Payloads : ClientSend(state)
  \/ ClientDisconnect
  \/ ClientOnError
  \/ SocketConnected
  \/ \E reason \in {ServerClose, TransportClose} : SocketClosed(reason)

InitClient ==
  /\ heap = LoopHeap
  /\ pool = EP_new({}, FALSE)
  /\ last = [op |-> "new", inst |-> 0, id |-> IdEmpty, res |-> "ok", ev |-> <<>>, n |-> 0]
  /\ snap = NoList
  /\ LoopInit
  /\ net = NS_new("expends")
  /\ wire = WireInit
  /\ ClientInit
SpecClient == InitClient /\ [][NextClient]_vars

InitNet ==
  /\ heap = LoopHeap
  /\ pool = EP_new({}, FALSE)
  /\ last = [op |-> "new", inst |-> 0, id |-> IdEmpty, res |-> "ok", ev |-> <<>>, n |-> 0]
  /\ snap = NoList
  /\ LoopInit
  /\ NetInit
SpecNet == InitNet /\ [][NextNet]_vars

----------------------------------------------------------------------------
(* The properties.  A step is told by what it changes: a #loop callback    *)
(* takes one from frame.firing; a call by the application leaves the clock *)
(* and the frame alone and names itself in trace.op.                       *)

TickStep == frame'.firing < frame.firing
AppStep(op) == frame' = frame /\ now' = now /\ trace'.op = op
LoopStep == TickStep \/ AppStep("start")
Invoked(e) == e.e \in {"update", "render"}
CountEv(ev, name) == Len(SelectSeq(ev, LAMBDA e : e.e = name))
Throwers(ev) == SelectSeq(ev, LAMBDA e : Invoked(e) /\ e.cb.k = "throws")
ListOps ==
  {"addUpdateCallback", "addRenderCallback",
   "removeUpdateCallback", "removeRenderCallback"}

\* C1 - Scheduler error isolation.  In every executed frame: each update
\* callback registered when the frame began is invoked once, in order, and,
\* unless a callback stopped the loop, so is each render callback; each
\* invocation of a callback that throws is followed at once by one call of
\* the error handler with that callback's exception when a handler is set,
\* and by none when none is set; no exception, the handler's own included,
\* leaves #loop; the loop re-arms once, last of all.
C1_ErrorIsolation ==
  [][(LoopStep /\ "frame" \in EvNames(trace'.ev)) =>
       LET ev == trace'.ev IN
         /\ ~trace'.thrown
         /\ Calls(ev, "update") = gl.updateCallbacks
         /\ "stop" \notin EvNames(ev) => Calls(ev, "render") = gl.renderCallbacks
         /\ \A k \in 1..Len(ev) :
              (Invoked(ev[k]) /\ ev[k].cb.k = "throws") =>
                 /\ k < Len(ev)
                 /\ IF gl.errorCallback = "none" THEN ev[k + 1].e # "onError"
                    ELSE ev[k + 1] = Ev("onError", ev[k].cb, 0)
         /\ CountEv(ev, "onError") =
              IF gl.errorCallback = "none" THEN 0 ELSE Len(Throwers(ev))
         /\ ev[Len(ev)].e = "rearm"
         /\ CountEv(ev, "rearm") = 1
         /\ armed' = armed + 1]_vars

\* a frame in which the first update callback threw, the error handler got
\* the exception and threw itself, and the next update callback, the render
\* callbacks and the re-arm followed all the same
C1_Witness ==
  /\ trace.op = "tick"
  /\ Len(trace.ev) >= 7
  /\ trace.ev[3] = Ev("update", Cb("throws"), trace.ev[2].x)
  /\ trace.ev[4] = Ev("onError", Cb("throws"), 0)
  /\ trace.ev[5].e = "handlerThrew"
  /\ trace.ev[6].e = "update" /\ trace.ev[6].cb = Cb("ok")
  /\ CountEv(trace.ev, "render") >= 1
  /\ trace.ev[Len(trace.ev)].e = "rearm"

\* C2 - EntityPool disjointness.  No instance is at once in the active map
\* (or its array cache) and in the free-list; the code does not keep it.
C2_Disjoint ==
  ({pool.entities[id] : id \in DOMAIN pool.entities} \cup Range(pool.cache))
     \cap Range(pool.freePool) = {}

\* C3 - EntityPool.add.  add fails when the argument is no Player, when its
\* id is empty or blank, and when the id is present; an add that fails one
\* of these checks leaves the pool (map, cache order, free-list) as it was
\* and invokes no hook; an add that returns makes get(id) the instance, puts
\* it last in the iteration order and invokes onAdd, if set, exactly once.
C3_AddContract ==
  [][last'.op = "add" =>
       LET e == last'.inst
           res == last'.res
       IN /\ e = NotAPlayer => res = "Error:type"
          /\ (e # NotAPlayer /\ Trim(heap[e].id) = <<>>) => res = "Error:id"
          /\ (e # NotAPlayer /\ Trim(heap[e].id) # <<>>
                /\ heap[e].id \in DOMAIN pool.entities) => res = "Error:dup"
          /\ res \in {"Error:type", "Error:id", "Error:dup"} =>
               pool' = pool /\ last'.ev = <<>>
          /\ res = "ok" =>
               /\ EP_get(pool', heap[e].id) = e
               /\ pool'.cache = Append(pool.cache, e)
               /\ pool'.freePool = pool.freePool
               /\ last'.ev = IF "onAdd" \in pool.hooks
                               THEN <<[e |-> "onAdd", i |-> e]>> ELSE <<>>]_vars

\* an add refused because another instance holds the id, in a pool with hooks
C3_Witness ==
  /\ last.op = "add"
  /\ last.res = "Error:dup"
  /\ "onAdd" \in pool.hooks
  /\ pool.entities[last.id] # last.inst

\* C4 - Entity validity.  Every entity a pool holds has both size components
\* positive and its opacity in [0, 1]; the code does not keep it.
C4_EntityValid ==
  \A id \in DOMAIN pool.entities :
    LET o == heap[pool.entities[id]] IN
      /\ o.size[1] > 0
      /\ o.size[2] > 0
      /\ o.opacity >= 0 /\ o.opacity <= 10

\* C5 - Scene stale callback.  Within one handler, once Scene.destroy() has
\* returned (onDestroy of activation g) the scheduler invokes neither closure
\* of activation g; the code does not keep it.
C5_NoStaleCallback ==
  \A j \in 1..Len(trace.ev) : \A k \in 1..Len(trace.ev) :
    (j < k /\ trace.ev[j].e = "onDestroy") =>
      ~(/\ Invoked(trace.ev[k])
        /\ trace.ev[k].cb.k \in {"sceneUpdate", "sceneRender"}
        /\ trace.ev[k].cb.g = trace.ev[j].x)

\* C6 - Sync server connections.  The keys of players are open connections;
\* the disconnect handler has removed its socket's entry when it returns; no
\* stateUpdate emitted carries the entry of a closed connection; so an
\* updateState handled after the disconnect creates no entry.
C6_ConnectionInvariant ==
  /\ DOMAIN net.players \subseteq net.sockets
  /\ DOMAIN net.players \cap wire.gone = {}
  /\ wire.op = "disconnect" => wire.c \notin DOMAIN net.players
  /\ \A k \in 1..Len(wire.out) :
       wire.out[k].ev = "stateUpdate" =>
         \A j \in 1..Len(wire.out[k].data) : wire.out[k].data[j].key \notin wire.gone

\* an updateState handled for a connection that has closed, while another
\* connection is open
C6_Witness ==
  /\ wire.op = "updateState"
  /\ wire.c \in wire.gone
  /\ net.sockets # {}

\* C7 - Pause/resume clock correction.  A resume() that takes effect at R
\* after the pause() at P moves lastTime forward by R - P >= 0; and the
\* deltaTime of every executed frame is at most the running time since the
\* frame before (or the start): its timestamp less that frame's, less the
\* time spent paused in between.
C7_ClockCorrection ==
  [][/\ (AppStep("resume") /\ gl.isRunning /\ gl.isPaused) =>
          /\ hist.pausedAt >= 0 /\ now >= hist.pausedAt
          /\ gl'.lastTime = gl.lastTime + (now - hist.pausedAt)
     /\ (LoopStep /\ "frame" \in EvNames(trace'.ev)) =>
          EvX(trace'.ev, "frame") <=
            EvX(trace'.ev, "loop") - PrevExec(hist) - hist.pausedMs]_vars

\* the first frame after a pause of 300 ms reported 100 ms
C7_Witness ==
  /\ trace.op = "tick"
  /\ "frame" \in EvNames(trace.ev)
  /\ hist.framePausedMs >= 300
  /\ EvX(trace.ev, "frame") = 100

\* C8 - Delta-time accounting, as stated: since the start, with no pause
\* and an update callback registered throughout, every deltaTime is at most
\* 0.2 s and their sum is the last executed timestamp less the first
\* timestamp; the code does not keep it.
C8_SumIsSpan ==
  (hist.lastExecTs # -1 /\ ~hist.everPaused /\ hist.heard) =>
     hist.sumDt = hist.lastExecTs - hist.firstTs

\* C8, amended: every deltaTime passed to the update callbacks is at most
\* 0.2 s; with no pause and an update callback registered throughout, their
\* sum is the last executed timestamp less the clock reading of start() when
\* no executed frame came more than 0.2 s after the one before, and is less
\* than that when one did (frames skipped by the rate limit lose nothing).
C8_Accounting ==
  /\ \A k \in 1..Len(trace.ev) :
       trace.ev[k].e = "update" => trace.ev[k].x <= MaxDeltaMs
  /\ (hist.lastExecTs # -1 /\ ~hist.everPaused /\ hist.heard) =>
       IF hist.clamped THEN hist.sumDt < hist.lastExecTs - hist.startT
       ELSE hist.sumDt = hist.lastExecTs - hist.startT

\* frames that reported more than 0.2 s between them, one of them cut to 0.2 s
C8_Witness ==
  /\ hist.clamped /\ ~hist.everPaused /\ hist.heard
  /\ trace.op = "tick"
  /\ CountEv(trace.ev, "update") = 1
  /\ hist.sumDt > MaxDeltaMs
  /\ hist.sumDt < hist.lastExecTs - hist.startT

\* C9 - stop().  stop() leaves the loop not running with both lists empty,
\* and no #loop run invokes a callback that a stop() before it found
\* registered and that has not been registered again since.
C9_StopClears ==
  [][/\ ((TickStep \/ AppStep("start") \/ AppStep("stop"))
            /\ "stop" \in EvNames(trace'.ev)) =>
          /\ ~gl'.isRunning
          /\ gl'.updateCallbacks = <<>>
          /\ gl'.renderCallbacks = <<>>
     /\ LoopStep =>
          \A k \in 1..Len(trace'.ev) :
            Invoked(trace'.ev[k]) => trace'.ev[k].cb \notin hist.cleared]_vars

\* after a stop() that cleared callbacks and a new start(), a frame ran a
\* callback registered since, while another stays cleared
C9_Witness ==
  /\ trace.op = "tick"
  /\ gl.isRunning
  /\ hist.cleared # {}
  /\ CountEv(trace.ev, "update") + CountEv(trace.ev, "render") >= 1

\* C10 - Paused ticks.  While paused a #loop run invokes no callback,
\* changes no field and re-arms once; pause() and resume() leave both lists
\* as they are, and while the loop stays paused only add/remove calls change
\* them; pause() when not running or already paused, and resume() when not
\* paused, change nothing.
C10_PausedTicks ==
  [][/\ (TickStep /\ gl.isRunning /\ gl.isPaused) =>
          /\ trace'.ev = <<Ev("loop", NoCb, frame.ts), Ev("paused", NoCb, 0),
                           Ev("rearm", NoCb, 0)>>
          /\ gl' = gl
          /\ armed' = armed + 1
     /\ (AppStep("pause") \/ AppStep("resume")) =>
          /\ gl'.updateCallbacks = gl.updateCallbacks
          /\ gl'.renderCallbacks = gl.renderCallbacks
     /\ (gl.isPaused /\ gl'.isPaused
           /\ <<gl'.updateCallbacks, gl'.renderCallbacks>> #
                <<gl.updateCallbacks, gl.renderCallbacks>>) =>
          \E op \in ListOps : AppStep(op)
     /\ (AppStep("pause") /\ (~gl.isRunning \/ gl.isPaused)) =>
          gl' = gl /\ armed' = armed /\ scene' = scene
     /\ (AppStep("resume") /\ ~(gl.isRunning /\ gl.isPaused)) =>
          gl' = gl /\ armed' = armed /\ scene' = scene]_vars

\* a #loop run while paused, with an update callback registered
C10_Witness ==
  /\ trace.op = "tick"
  /\ Len(trace.ev) = 3
  /\ trace.ev[2].e = "paused"
  /\ gl.isPaused
  /\ gl.updateCallbacks # <<>>

\* C11 - start() while running.  start(immediate), with either argument, on
\* a loop that is running, paused or not, changes no field of the loop
\* (lastTime, the fps counters and the paused flag included), runs no frame
\* and queues no #loop callback.
C11_StartNoop ==
  [][(AppStep("start") /\ gl.isRunning) =>
       /\ gl' = gl
       /\ armed' = armed
       /\ scene' = scene
       /\ trace'.ev = <<>>
       /\ ~trace'.thrown]_vars

\* start() was called on a paused loop that had counted a frame, at a clock
\* reading other than lastTime, and did nothing
C11_Witness ==
  /\ trace.op = "start"
  /\ trace.ev = <<>>
  /\ gl.isRunning /\ gl.isPaused
  /\ gl.frameCount > 0
  /\ gl.lastTime # now

\* C12 - Invocation order.  In every executed frame the update callbacks
\* registered when the frame began are invoked once each, in registration
\* order, all with the frame's deltaTime; then the render callbacks, as the
\* list stands after the update phase (the list of the frame's beginning,
\* or none when an update callback stopped the loop), once each, in
\* registration order, with no argument; no render callback is invoked
\* before the last update callback has returned.
C12_InvocationOrder ==
  [][(LoopStep /\ "frame" \in EvNames(trace'.ev)) =>
       LET ev == trace'.ev IN
         /\ Calls(ev, "update") = gl.updateCallbacks
         /\ Calls(ev, "render") =
              IF "stop" \in EvNames(ev) THEN <<>> ELSE gl.renderCallbacks
         /\ \A k \in 1..Len(ev) :
              /\ ev[k].e = "update" => ev[k].x = EvX(ev, "frame")
              /\ ev[k].e = "render" => ev[k].x = NoArg
         /\ \A j \in 1..Len(ev) : \A k \in 1..Len(ev) :
              (ev[j].e = "update" /\ ev[k].e = "render") => j < k]_vars

\* a frame that invoked two different update callbacks, then two render
\* callbacks
C12_Witness ==
  /\ trace.op = "tick"
  /\ CountEv(trace.ev, "update") = 2
  /\ Calls(trace.ev, "update")[1] # Calls(trace.ev, "update")[2]
  /\ CountEv(trace.ev, "render") = 2
  /\ EvX(trace.ev, "frame") > 0

\* C13 - Rate limiting.  A #loop run of a running, unpaused loop with a
\* maximum fps set and less than 1000/fps ms between lastTime and its
\* timestamp invokes no callback, changes no field (lastTime included) and
\* re-arms once; every other such run executes a frame, so with no maximum
\* (null) every run does; two consecutive executed frames are at least
\* 1000/fps ms apart; setMaximumFps changes maxFps and frameInterval only.
C13_RateLimit ==
  [][/\ (TickStep /\ gl.isRunning /\ ~gl.isPaused) =>
          IF gl.maxFps # 0 /\ frame.ts - gl.lastTime < 1000 \div gl.maxFps
            THEN /\ trace'.ev = <<Ev("loop", NoCb, frame.ts),
                                  Ev("skipped", NoCb, frame.ts - gl.lastTime),
                                  Ev("rearm", NoCb, 0)>>
                 /\ gl' = gl
                 /\ armed' = armed + 1
            ELSE /\ "frame" \in EvNames(trace'.ev)
                 /\ gl'.lastTime = frame.ts
                 /\ (gl.maxFps # 0 /\ hist.lastExecTs # -1) =>
                       frame.ts - hist.lastExecTs >= 1000 \div gl.maxFps
     /\ AppStep("setMaximumFps") =>
          /\ gl'.frameInterval =
               IF gl'.maxFps = 0 THEN 0 ELSE 1000 \div gl'.maxFps
          /\ [gl' EXCEPT !.maxFps = 0, !.frameInterval = 0] =
               [gl EXCEPT !.maxFps = 0, !.frameInterval = 0]
          /\ armed' = armed]_vars

\* a #loop run skipped 100 ms after an executed frame, with an update
\* callback registered
C13_Witness ==
  /\ trace.op = "tick"
  /\ Len(trace.ev) = 3
  /\ trace.ev[2] = Ev("skipped", NoCb, 100)
  /\ hist.lastExecTs # -1
  /\ gl.lastTime = hist.lastExecTs
  /\ gl.updateCallbacks # <<>>


\* C14 as the spec states it. A removal function may be called any number of
\* times, before or after stop() and after a later start(): it never throws,
\* and once it has been called, every further call leaves both callback lists
\* unchanged.
C14_FurtherCallsInert ==
  [][(AppStep("removeFn") /\ trace'.ev[1].x = 1) =>
       /\ ~trace'.thrown
       /\ gl'.updateCallbacks = gl.updateCallbacks
       /\ gl'.renderCallbacks = gl.renderCallbacks]_vars

\* C14, amended. A call of a removal function, the first or a further one,
\* before or after stop() and start(), never throws, removes every registration
\* of its callback from its own list and changes nothing else; it leaves the
\* loop unchanged when the callback is not registered in that list at the time
\* of the call, which after a first call is so until the same function is
\* registered again.
C14_RemoverValid ==
  [][AppStep("removeFn") =>
       LET e == trace'.ev[1]
           own == IF e.e = "update" THEN gl.updateCallbacks ELSE gl.renderCallbacks
           kept == SelectSeq(own, LAMBDA c : c # e.cb)
       IN /\ ~trace'.thrown
          /\ gl' = IF e.e = "update" THEN [gl EXCEPT !.updateCallbacks = kept]
                                     ELSE [gl EXCEPT !.renderCallbacks = kept]
          /\ e.cb \notin Range(own) => gl' = gl
          /\ armed' = armed /\ scene' = scene]_vars

\* a second call of a removal function, made after stop() and a later start(),
\* that found nothing to remove while another callback stayed registered
C14_Witness ==
  /\ trace.op = "removeFn" /\ trace.ev[1].x = 1
  /\ trace.ev[1].cb \in hist.cleared
  /\ gl.isRunning
  /\ Len(gl.updateCallbacks) + Len(gl.renderCallbacks) > 0

\* how often #loop invoked cb in the given phase, and how often a list holds it
Invocations(ev, phase, cb) == Len(SelectSeq(ev, LAMBDA e : e.e = phase /\ e.cb = cb))
Occurrences(list, cb) == Len(SelectSeq(list, LAMBDA c : c = cb))
Cancelled(ev) == EvNames(ev) \cap {"stop", "unregistered", "destroyNoop"} # {}

\* C15. gameLoop.stop() or scene.destroy() called from inside an update or
\* render callback that #loop is running does not throw (nothing reaches the
\* error handler and the tick completes), no callback is invoked more often in
\* that tick than it was registered when the tick began, a second call in the
\* same tick does not throw either, and after stop() the loop is not running
\* with both lists empty, so that no later tick invokes any callback while the
\* loop stays stopped.
C15_ReentrantCancel ==
  [][LoopStep =>
       LET ev == trace'.ev IN
       /\ Cancelled(ev) =>
            /\ ~trace'.thrown
            /\ gl.errorCallback = "ok" => "onError" \notin EvNames(ev)
            /\ \A cb \in Range(gl.updateCallbacks) :
                 Invocations(ev, "update", cb) <= Occurrences(gl.updateCallbacks, cb)
            /\ \A cb \in Range(gl.renderCallbacks) :
                 Invocations(ev, "render", cb) <= Occurrences(gl.renderCallbacks, cb)
            /\ \A k \in 1..Len(ev) :
                 Invoked(ev[k]) => ev[k].cb \in Registered(gl)
       /\ "stop" \in EvNames(ev) =>
            /\ ~gl'.isRunning
            /\ gl'.updateCallbacks = <<>> /\ gl'.renderCallbacks = <<>>
       /\ (TickStep /\ ~gl.isRunning) =>
            /\ \A k \in 1..Len(ev) : ~Invoked(ev[k])
            /\ gl' = gl /\ scene' = scene]_vars

\* an executed tick in which two callbacks each called stop(), with an error
\* handler installed
C15_Witness ==
  /\ CountEv(trace.ev, "stop") = 2
  /\ gl.errorCallback = "ok"
  /\ "frame" \in EvNames(trace.ev)

\* C16. Once destroy() has completed on an activated scene, a later activate()
\* on the same Scene registers no closure with the scheduler and does not make
\* the scene active again.
C16_NoReactivation ==
  [][(AppStep("activate") /\ scene.gen >= 1 /\ ~scene.isActive) =>
       /\ gl'.updateCallbacks = gl.updateCallbacks
       /\ gl'.renderCallbacks = gl.renderCallbacks
       /\ ~scene'.isActive]_vars

\* the closures of the scene, of any activation, that a callback list holds
SceneClosures(list) == SelectSeq(list, LAMBDA c : c.k \in {"sceneUpdate", "sceneRender"})

\* C17. activate() on an active scene registers nothing, changes nothing and
\* does not invoke onActivate. Whatever the number of activate() calls, each
\* callback list holds at most one closure of the scene, and while the scene
\* is active exactly one, that of the current activation (none once a
\* gameLoop.stop() has emptied the lists); the scene's update body and its
\* render body each run at most once per tick.
C17_ActivateIdempotent ==
  /\ [](LET u == SceneClosures(gl.updateCallbacks)
            r == SceneClosures(gl.renderCallbacks)
        IN /\ Len(u) <= 1 /\ Len(r) <= 1
           /\ scene.isActive =>
                /\ u = IF SceneUpdateCb(scene.gen) \in hist.cleared
                         THEN <<>> ELSE <<SceneUpdateCb(scene.gen)>>
                /\ r = IF SceneRenderCb(scene.gen) \in hist.cleared
                         THEN <<>> ELSE <<SceneRenderCb(scene.gen)>>)
  /\ [][/\ (AppStep("activate") /\ scene.isActive) =>
             /\ gl' = gl /\ scene' = scene
             /\ "onActivate" \notin EvNames(trace'.ev)
             /\ ~trace'.thrown
        /\ LoopStep =>
             /\ CountEv(trace'.ev, "onUpdate") <= 1
             /\ CountEv(trace'.ev, "onRender") <= 1]_vars

\* activate() has just been called on an active scene whose closures are
\* registered with a running loop that has executed frames
C17_Witness ==
  /\ trace.op = "activate" /\ "activateNoop" \in EvNames(trace.ev)
  /\ scene.isActive /\ gl.isRunning /\ hist.lastExecTs # -1
  /\ SceneClosures(gl.updateCallbacks) = <<SceneUpdateCb(scene.gen)>>

\* C18. destroy() on an active scene does, in this order: deregisters both
\* closures, destroys the pool, sets isActive to false, invokes onDestroy once;
\* afterwards neither list holds a closure of the scene, the pool's active set
\* and free-list are empty and the scene is inactive. destroy() on an inactive
\* scene, never activated or already destroyed, changes nothing and invokes no
\* hook.
C18_DestroyOrder ==
  [][AppStep("destroy") =>
       /\ ~trace'.thrown
       /\ scene.isActive =>
            /\ EvNames(trace'.ev) \subseteq {"unregistered", "poolDestroy", "deactivated", "onDestroy"}
            /\ [k \in 1..Len(trace'.ev) |-> trace'.ev[k].e]
                 = <<"unregistered", "poolDestroy", "deactivated", "onDestroy">>
            /\ SceneClosures(gl'.updateCallbacks) = <<>>
            /\ SceneClosures(gl'.renderCallbacks) = <<>>
            /\ DOMAIN scene'.entityPool.entities = {}
            /\ scene'.entityPool.cache = <<>>
            /\ scene'.entityPool.freePool = <<>>
            /\ ~scene'.isActive
       /\ ~scene.isActive =>
            /\ gl' = gl /\ scene' = scene /\ armed' = armed
            /\ EvNames(trace'.ev) = {"destroyNoop"}]_vars

\* destroy() has just torn down an active scene that held entities and whose
\* closures were registered
C18_Witness ==
  /\ trace.op = "destroy" /\ "onDestroy" \in EvNames(trace.ev)
  /\ EvX(trace.ev, "poolDestroy") > 0
  /\ ~scene.isActive

\* the position of a connection in the order the server accepted them
ConnIndex(c) == CHOOSE k \in 1..Len(Digits) : SocketId(k) = c

\* C19. Join protocol. The connection handler of c stores a fresh entity under
\* c, emits assignId carrying c to c alone and then playerJoined carrying that
\* entity to every connected socket, c included. So each client receives first
\* its own assignId, then its own playerJoined, then only the playerJoined of
\* connections accepted after it: never an assignId of another connection, and
\* never the playerJoined of a connection that joined before it.
C19_JoinProtocol ==
  /\ wire.op = "connection" =>
       LET c == wire.c IN
       /\ c \in net.sockets
       /\ c \in DOMAIN net.players /\ net.players[c] = NewPlayerState
       /\ wire.out = <<Emit({c}, "assignId", c),
                       Emit(net.sockets, "playerJoined", net.players[c])>>
  /\ \A d \in DOMAIN wire.rx :
       LET q == wire.rx[d] IN
       /\ (d \in net.sockets \/ d \in wire.gone) <=> q # <<>>
       /\ q # <<>> =>
            /\ Len(q) >= 2
            /\ q[1] = [ev |-> "connected", data |-> d, by |-> d]
            /\ q[2] = [ev |-> "playerJoined", data |-> NewPlayerState, by |-> d]
            /\ \A k \in 3..Len(q) :
                 /\ q[k].ev = "playerJoined"
                 /\ ConnIndex(q[k].by) > ConnIndex(d)

\* the third connection has joined while the first was still connected: the
\* first client has received its assignId, its own playerJoined and two more
C19_Witness ==
  /\ wire.op = "connection" /\ wire.c = SocketId(3)
  /\ Len(wire.rx[SocketId(1)]) = 4
  /\ Len(wire.rx[SocketId(3)]) = 2

\* C20. For every connection c in the server's map the stored entity's id is
\* c: in the entity playerJoined carries right after the join, and after any
\* updateState messages of c, whatever id, or none, their payload carries.
C20_EntityIdIsConnectionId ==
  /\ \A c \in DOMAIN net.players :
       /\ "id" \in DOMAIN net.players[c]
       /\ net.players[c].id = c
  /\ wire.op = "connection" =>
       \A k \in 1..Len(wire.out) :
         wire.out[k].ev = "playerJoined" => wire.out[k].data.id = wire.c

\* the server has just run the updateState handler for a message in flight
UpdateStep ==
  wire'.op = "updateState" /\ wire'.up \subseteq wire.up /\ wire'.up # wire.up

\* C21. Update handling. An updateState for a connection id that is not in the
\* map is ignored: the server is unchanged and nothing is emitted. One from a
\* connection in the map stores the payload (or the payload spread over the
\* stored entry) under that id and changes nothing else: same keys, same
\* iteration order, every other entry as it was, nothing emitted.
C21_UpdateHandling ==
  [][UpdateStep =>
       LET m == CHOOSE x \in wire.up : x \notin wire'.up
           c == wire'.c
       IN /\ m.c = c
          /\ wire'.out = <<>>
          /\ c \notin DOMAIN net.players => net' = net
          /\ c \in DOMAIN net.players =>
               /\ DOMAIN net'.players = DOMAIN net.players
               /\ net'.order = net.order
               /\ net'.sockets = net.sockets
               /\ \A d \in DOMAIN net.players \ {c} : net'.players[d] = net.players[d]
               /\ net'.players[c] = IF net.variant = "expends" THEN m.state
                                     ELSE Spread(net.players[c], m.state)]_vars

\* an update was stored for the first of two connections in the map, and one
\* was ignored before for a connection that had closed
C21_Witness ==
  /\ wire.op = "updateState"
  /\ Len(net.order) >= 2 /\ wire.c = net.order[1]
  /\ net.players[wire.c].x # 0
  /\ wire.gone # {}

\* the server has just run the disconnect handler of a connection
DisconnectStep == wire'.op = "disconnect" /\ wire'.gone # wire.gone

\* C22. Disconnect handling. When connection c disconnects the server deletes
\* c's entry and emits exactly one playerLeft whose payload is the id c and
\* nothing else; the entries of the other connections, and their order, are
\* unchanged.
C22_DisconnectHandling ==
  [][DisconnectStep =>
       LET c == wire'.c IN
       /\ c \in DOMAIN net.players
       /\ DOMAIN net'.players = DOMAIN net.players \ {c}
       /\ \A d \in DOMAIN net'.players : net'.players[d] = net.players[d]
       /\ net'.order = SelectSeq(net.order, LAMBDA k : k # c)
       /\ Len(wire'.out) = 1
       /\ wire'.out[1].ev = "playerLeft"
       /\ wire'.out[1].data = c
       /\ wire'.out[1].to = net.sockets \ {c}]_vars

\* the first of three connections has just disconnected; the other two keep
\* their entries, one of them updated before
C22_Witness ==
  /\ wire.op = "disconnect" /\ wire.c = SocketId(1)
  /\ net.order = <<SocketId(2), SocketId(3)>>
  /\ net.players[SocketId(2)].x # 0

\* C23. Periodic snapshot. The timer's period is the sync frequency the
\* constructor was given (100 ms by default); each firing emits to every
\* connected socket one stateUpdate carrying the stored entities in join order,
\* changed or not; so with a sync frequency of 100 ms a window of 350 ms holds
\* 3 snapshots, give or take one.
C23_PeriodicSnapshot ==
  /\ wire.timer.delay = wire.timer.syncFrequency
  /\ wire.op = "timer" =>
       wire.out = <<Emit(net.sockets, "stateUpdate", PlayersValues(net))>>
  /\ (wire.timer.syncFrequency = 100 /\ wire.clock + wire.timer.delay > SyncWindowMs) =>
       wire.snaps \in 2..4

\* the connections whose playerJoined a client received, in order of receipt
JoinsSeen(d) ==
  LET pj == SelectSeq(wire.rx[d], LAMBDA e : e.ev = "playerJoined")
  IN [k \in 1..Len(pj) |-> pj[k].by]
\* the second connection has just joined, the first being connected
SecondJoined ==
  wire.op = "connection" /\ wire.c = SocketId(2) /\ SocketId(1) \in net.sockets
\* the first of two connections has just disconnected, the second being
\* connected
FirstLeft ==
  /\ wire.op = "disconnect" /\ wire.c = SocketId(1)
  /\ net.accepted = 2 /\ SocketId(2) \in net.sockets

\* C24 as the spec states it. Two connections join in sequence: each receives
\* a distinct assigned id, both receive two playerJoined events in join order,
\* and disconnecting the first yields exactly one playerLeft with its id, to
\* the second only.
C24_TwoPeersBothSeeBoth ==
  /\ SecondJoined =>
       /\ wire.rx[SocketId(1)][1].data # wire.rx[SocketId(2)][1].data
       /\ JoinsSeen(SocketId(1)) = <<SocketId(1), SocketId(2)>>
       /\ JoinsSeen(SocketId(2)) = <<SocketId(1), SocketId(2)>>
  /\ FirstLeft => wire.out = <<Emit({SocketId(2)}, "playerLeft", SocketId(1))>>

\* C24, amended. Two connections join in sequence: each receives its own
\* socket id, the two differ; the first receives two playerJoined events, its
\* own and then the second's; the second receives only its own, having
\* connected after the first one's was broadcast; disconnecting the first
\* yields exactly one playerLeft with its id, to the second only.
C24_TwoPeers ==
  /\ SecondJoined =>
       /\ wire.rx[SocketId(1)][1] = [ev |-> "connected", data |-> SocketId(1), by |-> SocketId(1)]
       /\ wire.rx[SocketId(2)][1] = [ev |-> "connected", data |-> SocketId(2), by |-> SocketId(2)]
       /\ SocketId(1) # SocketId(2)
       /\ JoinsSeen(SocketId(1)) = <<SocketId(1), SocketId(2)>>
       /\ JoinsSeen(SocketId(2)) = <<SocketId(2)>>
  /\ FirstLeft =>
       /\ wire.out = <<Emit({SocketId(2)}, "playerLeft", SocketId(1))>>
       /\ JoinsSeen(SocketId(1)) = <<SocketId(1), SocketId(2)>>
       /\ JoinsSeen(SocketId(2)) = <<SocketId(2)>>

\* two connections have joined in sequence and the first has just disconnected
C24_Witness == FirstLeft /\ Len(wire.rx[SocketId(1)]) = 3

\* C25. sendPlayerState when the client has no socket (never connected, or
\* after disconnect()) or its socket is not connected emits no updateState,
\* invokes the error callback once if one is registered, and does not throw;
\* when the socket is connected it emits exactly one updateState and invokes
\* no error callback. The client is left as it was either way.
C25_SendWithoutConnection ==
  [][client'.op = "sendPlayerState" =>
       /\ client'.nc = client.nc
       /\ IF client.nc.socket = NoSocket \/ ~client.nc.connected
            THEN client'.ev = IF client.nc.error THEN <<Did("error", client.nc.socket)>>
                                                ELSE <<>>
            ELSE /\ Len(client'.ev) = 1
                 /\ client'.ev[1].e = "emit"
                 /\ client'.ev[1].s = client.nc.socket
                 /\ client'.ev[1].data \in Payloads]_vars

\* sendPlayerState has just been called after disconnect(), with an error
\* callback registered: the callback ran
C25_Witness ==
  /\ client.op = "sendPlayerState"
  /\ client.nc.socket = NoSocket /\ client.nc.made > 0
  /\ client.ev = <<Did("error", NoSocket)>>

\* C26. Reconnection policy. When the server closes the client's connection
\* the "disconnect" handler calls connect() once, at once, on the client's
\* current socket; for any other reason, a drop of the transport or the
\* client's own disconnect(), it calls connect() on no socket. disconnect()
\* leaves the client without socket, so that no later handler reconnects the
\* socket it closed.
C26_ReconnectPolicy ==
  [][LET reconnects == SelectSeq(client'.ev, LAMBDA d : d.e = "connect") IN
     /\ client'.op = "disconnectEvent" =>
          /\ client'.nc = [client.nc EXCEPT !.connected = FALSE]
          /\ reconnects = IF client'.reason = ServerClose
                            THEN <<Did("connect", client.nc.socket)>> ELSE <<>>
     /\ client'.op = "disconnect" =>
          /\ reconnects = <<>>
          /\ client'.nc.socket = NoSocket
     /\ \A k \in 1..Len(reconnects) :
          reconnects[k].s = client.nc.socket /\ reconnects[k].s # NoSocket]_vars

\* the server has just closed the connection of the second socket the client
\* made, the first having been closed by disconnect(): one reconnect, of the
\* second socket
C26_Witness ==
  /\ client.op = "disconnectEvent" /\ client.reason = ServerClose
  /\ client.nc.socket = 2
  /\ Did("connect", 2) \in Range(client.ev)

\* C27. Recycle and reuse. recycle(id) of a present id takes the entity out of
\* the active set, appends it to the free-list, invokes onRecycle (last of the
\* hooks it invokes) and returns true; recycle of an absent id returns false,
\* invokes nothing and leaves the pool as it is. getOrCreate with a non-empty
\* free-list pops the most recently recycled instance, applies resetFn to it,
\* then invokes onReuse, and does not call createFn; with an empty free-list
\* it calls createFn and leaves the pool as it is.
C27_RecycleAndReuse ==
  [][/\ last'.op = "recycle" =>
          IF EP_has(pool, last'.id)
            THEN LET entity == pool.entities[last'.id] IN
                 /\ last'.res = "true"
                 /\ ~EP_has(pool', last'.id)
                 /\ EP_getSize(pool') = EP_getSize(pool) - 1
                 /\ pool'.freePool = Append(pool.freePool, entity)
                 /\ "onRecycle" \in pool.hooks =>
                      /\ last'.ev # <<>>
                      /\ last'.ev[Len(last'.ev)] = [e |-> "onRecycle", i |-> entity]
                      /\ Len(SelectSeq(last'.ev, LAMBDA d : d.e = "onRecycle")) = 1
            ELSE last'.res = "false" /\ last'.ev = <<>> /\ pool' = pool
     /\ last'.op = "getOrCreate" =>
          IF pool.freePool # <<>>
            THEN LET entity == pool.freePool[Len(pool.freePool)] IN
                 /\ last'.inst = entity
                 /\ pool'.freePool = SubSeq(pool.freePool, 1, Len(pool.freePool) - 1)
                 /\ last'.ev = <<[e |-> "resetFn", i |-> entity]>>
                                \o (IF "onReuse" \in pool.hooks
                                      THEN <<[e |-> "onReuse", i |-> entity]>> ELSE <<>>)
                 /\ heap'[entity].id = last'.id
            ELSE /\ last'.ev = <<[e |-> "createFn", i |-> 0]>>
                 /\ pool' = pool
                 /\ ~heap[last'.inst].made /\ heap'[last'.inst].made]_vars

\* of two recycled instances getOrCreate has handed out the second, with
\* onReuse, and the first is still in the free-list
C27_Witness ==
  /\ last.op = "getOrCreate" /\ last.res = "reuse"
  /\ Len(pool.freePool) = 1 /\ pool.freePool[1] # last.inst
  /\ [e |-> "onReuse", i |-> last.inst] \in Range(last.ev)

\* C28. destroy() completes without raising whatever hooks the pool was
\* constructed with, and leaves the active set and the free-list empty.
C28_DestroyCompletes ==
  last.op = "destroy" =>
    /\ last.res = "ok"
    /\ EP_getSize(pool) = 0 /\ pool.entities = EmptyMap
    /\ pool.freePool = <<>>

\* C30. clear() of a pool that holds entities invokes onRemove once for each
\* of them, in insertion order, then onClear once, and leaves the active set
\* empty; clear() of an empty pool invokes no hook and changes nothing. The
\* free-list is the same before and after in both cases.
C30_Clear ==
  [][last'.op = "clear" =>
       /\ last'.res = "ok"
       /\ pool'.freePool = pool.freePool
       /\ IF EP_getSize(pool) = 0
            THEN last'.ev = <<>> /\ pool' = pool
            ELSE /\ EP_getSize(pool') = 0 /\ pool'.entities = EmptyMap
                 /\ "onRemove" \in pool.hooks /\ "onClear" \in pool.hooks =>
                      last'.ev = [k \in 1..Len(pool.cache) |->
                                    [e |-> "onRemove", i |-> pool.cache[k]]]
                                 \o <<[e |-> "onClear", i |-> 0]>>
                 /\ pool.hooks = {} => last'.ev = <<>>]_vars

\* a pool with hooks that held two entities, and a recycled one in its
\* free-list, has been cleared
C30_Witness ==
  /\ last.op = "clear" /\ Len(last.ev) = 3
  /\ last.ev[1].i = 2 /\ last.ev[2].i = 1 /\ last.ev[3].e = "onClear"
  /\ pool.freePool # <<>> /\ pool.cache = <<>>

\* C29. Batch semantics, the returned number. Under the ignore strategy the
\* number batchAdd returns is the number of entities it added to the pool,
\* and the number batchRemove returns is the number of ids it removed.
C29_BatchCount ==
  [][/\ last'.op = "batchAdd:ignore" =>
          /\ last'.res = "ok"
          /\ last'.n = EP_getSize(pool') - EP_getSize(pool)
     /\ last'.op = "batchRemove" =>
          /\ last'.res = "ok"
          /\ last'.n = EP_getSize(pool) - EP_getSize(pool')]_vars

\* add(e1); free the id by remove(id), recycle(id) or clear(); add(e2), from
\* the pool p: the three results, in order
IdReuse(p, h, e1, e2, how) ==
  LET a1 == EP_add(p, h, e1)
      f == CASE how = "remove" -> EP_remove(a1.p, h[e1].id)
             [] how = "recycle" -> EP_recycle(a1.p, h[e1].id)
             [] OTHER -> EP_clear(a1.p)
      a2 == EP_add(f.p, h, e2)
  IN <<a1, f, a2>>

\* the instances e1, e2 and the way of freeing for which the sequence is
\* defined: two live instances with the same id, the first add succeeding
IdReuseCases ==
  {c \in InstIds \X InstIds \X {"remove", "recycle", "clear"} :
     /\ heap[c[1]].made /\ heap[c[2]].made
     /\ heap[c[1]].id = heap[c[2]].id
     /\ EP_add(pool, heap, c[1]).res = "ok"}

\* C31 as stated: after the second add the pool size is what it was after
\* the first add, also when the id was freed by clear().
C31_IdReuseSameSize ==
  \A c \in IdReuseCases :
    LET r == IdReuse(pool, heap, c[1], c[2], c[3]) IN
    /\ r[3].res = "ok"
    /\ EP_get(r[3].p, heap[c[2]].id) = c[2]
    /\ EP_getSize(r[3].p) = EP_getSize(r[1].p)

\* C31. Id reuse. From any pool state, add(e1) with a valid id, then
\* remove(id) or recycle(id), then add(e2) with the same id: the second add
\* succeeds, get(id) is e2 and the pool size is what it was after the first
\* add. When the id is freed by clear() the second add succeeds and get(id)
\* is e2 as well, and the pool then holds e2 alone: its size is 1.
C31_IdReuse ==
  \A c \in IdReuseCases :
    LET r == IdReuse(pool, heap, c[1], c[2], c[3]) IN
    /\ r[3].res = "ok"
    /\ EP_get(r[3].p, heap[c[2]].id) = c[2]
    /\ EP_has(r[3].p, heap[c[2]].id)
    /\ EP_getSize(r[3].p) = IF c[3] = "clear" THEN 1 ELSE EP_getSize(r[1].p)

\* the sequence has run: instance 1 was added and recycled, instance 2, of
\* the same id, was added after it and is the one the pool holds
C31_Witness ==
  /\ last.op = "add" /\ last.res = "ok" /\ last.inst = 2
  /\ heap[1].made /\ heap[1].id = heap[2].id
  /\ pool.freePool = <<1>>
  /\ EP_get(pool, heap[2].id) = 2 /\ EP_getSize(pool) = 1

\* C32. Snapshot reads. getAll() returns the held entities in insertion
\* order, and the list it returns is a list of its own: when the caller adds
\* to, removes from or reorders a list it got from getAll or a filter call,
\* getAll(), has(), get() and getSize() give afterwards what they gave
\* before, and a pool operation leaves a list returned earlier as it was.
C32_SnapshotReads ==
  [][/\ last'.op = "getAll" =>
          /\ ListItems(pool', snap') = pool.cache
          /\ pool' = pool
     /\ last'.op = "filter" /\ last'.res = "ok" =>
          /\ Range(ListItems(pool', snap')) \subseteq Range(pool.cache)
          /\ pool' = pool
     /\ last'.op = "mutateList" =>
          /\ ListItems(pool', EP_getAll(pool')) = ListItems(pool, EP_getAll(pool))
          /\ EP_getSize(pool') = EP_getSize(pool)
          /\ \A id \in {IdA, IdB} :
               EP_has(pool', id) = EP_has(pool, id) /\ EP_get(pool', id) = EP_get(pool, id)
     /\ last'.op \in {"add", "remove", "clear"} =>
          ListItems(pool', snap') = ListItems(pool, snap)]_vars

\* the caller holds the list getAll() gave for a pool of two entities, has
\* reversed it, and the pool has been cleared since
C32_Witness ==
  /\ last.op = "clear" /\ last.ev # <<>>
  /\ snap.ref = "fresh" /\ snap.items = <<2, 1>>
  /\ EP_getSize(pool) = 0

\* C33. Independent deregistration. A call of the removal function that one
\* addUpdateCallback / addRenderCallback call returned removes that one
\* registration: at most one entry leaves its list, every other registration
\* of the same function stays, and the other phase's list is unchanged.
C33_IndependentDeregistration ==
  [][AppStep("removeFn") =>
       LET e == trace'.ev[1] IN
       IF e.e = "update"
         THEN /\ Occurrences(gl'.updateCallbacks, e.cb)
                   >= Occurrences(gl.updateCallbacks, e.cb) - 1
              /\ gl'.renderCallbacks = gl.renderCallbacks
         ELSE /\ Occurrences(gl'.renderCallbacks, e.cb)
                   >= Occurrences(gl.renderCallbacks, e.cb) - 1
              /\ gl'.updateCallbacks = gl.updateCallbacks]_vars

\* what the scene's closures do when they are invoked with the scene active:
\* the events of update(dt) and of render(), for the pool content c
SceneUpdateWork(c, dt) ==
  LET upd == SelectSeq(c, LAMBDA i : heap[i].update) IN
  <<Ev("poolForEach", NoCb, Len(c))>>
    \o [k \in 1..Len(upd) |-> Ev("entityUpdate", EntityRef(upd[k]), dt)]
    \o <<Ev("onUpdate", NoCb, dt)>>
SceneRenderWork(c) ==
  <<Ev("rendererClear", NoCb, 0), Ev("poolForEach", NoCb, Len(c))>>
    \o [k \in 1..Len(c) |-> Ev("drawEntity", EntityRef(c[k]), 0)]
    \o <<Ev("onRender", NoCb, 0)>>
SceneWorkNames ==
  {"poolForEach", "entityUpdate", "onUpdate", "rendererClear", "drawEntity", "onRender"}
Follows(ev, k, work) ==
  /\ k + Len(work) <= Len(ev)
  /\ SubSeq(ev, k + 1, k + Len(work)) = work
  /\ k + Len(work) < Len(ev) => ev[k + Len(work) + 1].e \notin SceneWorkNames

\* C34. Scene per-frame order. In every executed frame, each invocation of
\* the scene's update closure made while the scene is active calls the update
\* function of every pooled entity that has one, in insertion order, with the
\* frame's deltaTime, and then onUpdate once with the same deltaTime; each
\* invocation of its render closure made while the scene is active clears
\* the surface, draws every pooled entity in insertion order and then calls
\* onRender once; all update work of the frame precedes all render work; a
\* closure invoked while the scene is not active returns at once.
C34_SceneFrameOrder ==
  [][(LoopStep /\ "frame" \in EvNames(trace'.ev)) =>
       LET ev == trace'.ev
           dt == EvX(ev, "frame")
           c == scene.entityPool.cache
           ActiveAt(k) == scene.isActive /\ \A j \in 1..k : ev[j].e # "deactivated"
       IN /\ \A k \in 1..Len(ev) :
               /\ (ev[k].e = "update" /\ ev[k].cb.k = "sceneUpdate") =>
                    IF ActiveAt(k) THEN Follows(ev, k, SceneUpdateWork(c, dt))
                    ELSE Follows(ev, k, <<Ev("inactiveReturn", NoCb, 0)>>)
               /\ (ev[k].e = "render" /\ ev[k].cb.k = "sceneRender") =>
                    IF ActiveAt(k) THEN Follows(ev, k, SceneRenderWork(c))
                    ELSE Follows(ev, k, <<Ev("inactiveReturn", NoCb, 0)>>)
          /\ \A j \in 1..Len(ev) : \A k \in 1..Len(ev) :
               (ev[j].e \in {"update", "entityUpdate", "onUpdate"}
                  /\ ev[k].e \in {"render", "rendererClear", "drawEntity", "onRender"})
                 => j < k
          /\ CountEv(ev, "onUpdate") <= 1 /\ CountEv(ev, "onRender") <= 1]_vars

\* a frame of an active scene holding two entities, of which the first has an
\* update function
C34_Witness ==
  /\ trace.op = "tick"
  /\ CountEv(trace.ev, "entityUpdate") = 1
  /\ CountEv(trace.ev, "drawEntity") = 2
  /\ {"onUpdate", "onRender"} \subseteq EvNames(trace.ev)
  /\ scene.isActive /\ scene.entityPool.cache = <<2, 1>>

\* a frame in which a closure of the scene was invoked after a callback had
\* destroyed the scene
C34_InactiveReached ==
  trace.op = "tick" /\ "inactiveReturn" \in EvNames(trace.ev)

\* C35. Single tick chain. The scheduler has at most one pending
\* requestAnimationFrame callback, counting those queued for a later frame
\* and those of the current frame that have not run yet.
C35_SingleTickChain == armed + frame.firing <= 1

\* C36. Scene/scheduler registration consistency. Whenever the scene is
\* active, the update and render closures of its activation are registered
\* with the scheduler.
C36_ActiveRegistered ==
  scene.isActive =>
    /\ SceneUpdateCb(scene.gen) \in Range(gl.updateCallbacks)
    /\ SceneRenderCb(scene.gen) \in Range(gl.renderCallbacks)

\* C37. Server stop quiescence. The process has at most one snapshot timer,
\* and none while no server is running; a server that was stopped makes no
\* further snapshot broadcast.
C37_StopQuiescence ==
  /\ wire.timers <= 1
  /\ ~wire.instance => wire.timers = 0
  /\ wire.op # "staleTimer"

\* C38. Pool index consistency. The id-keyed map and the entity cache hold
\* the same instances, each exactly once; getSize() is the number of ids for
\* which has(id) is true; getAll() contains an instance if and only if
\* get(its id) returns it.
C38_IndexConsistent ==
  LET c == pool.cache
      ids == DOMAIN pool.entities
  IN /\ Range(c) = {pool.entities[id] : id \in ids}
     /\ \A j \in 1..Len(c) : \A k \in 1..Len(c) : c[j] = c[k] => j = k
     /\ \A a \in ids : \A b \in ids : pool.entities[a] = pool.entities[b] => a = b
     /\ EP_getSize(pool) = Cardinality(ids)
     /\ \A i \in InstIds :
          i \in Range(c) <=> (heap[i].made /\ EP_get(pool, heap[i].id) = i)

\* C39. Non-negative delta time. Every deltaTime passed to an update callback
\* is at least 0, in every frame whose timestamp is not earlier than the
\* clock reading of the start() before it, though it may be earlier than the
\* reading of a resume() made since the frame began.
C39_NonNegativeDelta ==
  \A k \in 1..Len(trace.ev) :
    (trace.ev[k].e = "update" /\ EvX(trace.ev, "loop") >= hist.startT)
      => trace.ev[k].x >= 0

\* C40. Add atomicity. Whenever add(entity) raises, the pool is afterwards
\* as it was before the call; and under the ignore strategy the entities
\* batchAdd leaves in the pool beyond those it held before are as many as it
\* counts as successes.
C40_AddAtomic ==
  [][/\ (last'.op = "add" /\ last'.res # "ok") => pool' = pool
     /\ last'.op = "batchAdd:ignore" =>
          EP_getSize(pool') = EP_getSize(pool) + last'.n]_vars
============================================================================
